---------------------------- MODULE Spec2Model ----------------------------
(***************************************************************************)
(* A model of gitbrag's pull-request collection and enrichment pipeline:   *)
(* the error classifier, the search pagination engine, the PR-file         *)
(* enrichment, the star-increase engine and the collection orchestrator.   *)
(* Every component has its own specification over one shared state.        *)
(***************************************************************************)
EXTENDS Integers, Sequences, FiniteSets, TLC

VARIABLES
    \* categorize_error
    error, category,
    \* GitHubAPIClient.search_all_issues
    searchArgs, searchPc, first_items, target_count, total_pages,
    remaining_results, return_items, searchRequests,
    \* fetch_repository_star_increase
    stargazers, starCache, starPc, starCall, star_count, cursor,
    has_next_page, graphqlRequests, restRequests, cacheWrites, starCalls,
    starReturned, starSucceeded,
    \* fetch_pr_files
    fileCache, filesReturned,
    \* collect_user_prs
    collectArgs, collectPc, searchItems, searchError, pull_requests, stats,
    metrics, starTasks, collectReturned,
    \* collect_repository_star_increases
    batchRepositories, batchLimit, batchTasks, batchPc, star_increases,
    \* GitHubAPIClient._request_with_retry
    requestArgs, requestPc, retry_count, requests, wait_time, sleeps, now,
    lastOutcome, requestError,
    \* GitHubAPIClient.execute_graphql
    graphqlPc, graphqlBody, graphqlResult, graphqlError,
    \* the parse loop of collect_user_prs and get_display_state
    rawItems, parseIndex, parsed, parsePc, parseError, display_states,
    \* schedule_report_generation and the task keys
    callArgs, callPc, callLocal, callResult, taskKeys, userTasks,
    \* generate_report_background: its outcome, the report it caches
    callOutcome, cacheFailed, reportCache

classifyVars == <<error, category>>
searchVars == <<searchArgs, searchPc, first_items, target_count, total_pages,
                remaining_results, return_items, searchRequests>>
starVars == <<stargazers, starCache, starPc, starCall, star_count, cursor,
              has_next_page, graphqlRequests, restRequests, cacheWrites,
              starCalls, starReturned, starSucceeded>>
fileVars == <<fileCache, filesReturned>>
collectVars == <<collectArgs, collectPc, searchItems, searchError, pull_requests,
                 stats, metrics, starTasks, collectReturned>>
batchVars == <<batchRepositories, batchLimit, batchTasks, batchPc,
               star_increases>>
requestVars == <<requestArgs, requestPc, retry_count, requests, wait_time,
                 sleeps, now, lastOutcome, requestError>>
graphqlVars == <<graphqlPc, graphqlBody, graphqlResult, graphqlError>>
parseVars == <<rawItems, parseIndex, parsed, parsePc, parseError, display_states>>
taskVars == <<callArgs, callPc, callLocal, callResult, taskKeys, userTasks,
              callOutcome, cacheFailed, reportCache>>
vars ==
    <<classifyVars,
      searchVars,
      starVars,
      fileVars,
      collectVars,
      batchVars,
      requestVars,
      graphqlVars,
      parseVars,
      taskVars>>

\* What each component leaves alone.
notClassify ==
    <<searchVars, starVars, fileVars, collectVars, batchVars, requestVars, graphqlVars, parseVars,
      taskVars>>
notSearch ==
    <<classifyVars, starVars, fileVars, collectVars, batchVars, requestVars, graphqlVars, parseVars,
      taskVars>>
notStars ==
    <<classifyVars, searchVars, fileVars, collectVars, batchVars, requestVars, graphqlVars, parseVars,
      taskVars>>
notFiles ==
    <<classifyVars, searchVars, starVars, collectVars, batchVars, requestVars, graphqlVars, parseVars,
      taskVars>>
notCollect ==
    <<classifyVars, searchVars, starVars, filesReturned, batchVars, requestVars, graphqlVars, parseVars,
      taskVars>>
notBatch ==
    <<classifyVars, searchVars, starVars, fileVars, collectVars, requestVars, graphqlVars, parseVars,
      taskVars>>
notRequest ==
    <<classifyVars, searchVars, starVars, fileVars, collectVars, batchVars, graphqlVars, parseVars,
      taskVars>>
notGraphql ==
    <<classifyVars, searchVars, starVars, fileVars, collectVars, batchVars, requestVars, parseVars,
      taskVars>>
notParse ==
    <<classifyVars, searchVars, starVars, fileVars, collectVars, batchVars, requestVars, graphqlVars,
      taskVars>>
notTasks ==
    <<classifyVars, searchVars, starVars, fileVars, collectVars, batchVars, requestVars, graphqlVars, parseVars>>

-----------------------------------------------------------------------------
(* Optional values (Python's None) and small helpers.                       *)

None == <<>>
Some(x) == <<x>>
IsNone(o) == o = <<>>
Get(o) == o[1]

Min(a, b) == IF a <= b THEN a ELSE b
Max(a, b) == IF a >= b THEN a ELSE b

\* Python's s[:n] for n >= 0.
Take(s, n) == SubSeq(s, 1, Min(n, Len(s)))

NoDuplicates(s) == \A i, j \in 1..Len(s) : i /= j => s[i] /= s[j]

-----------------------------------------------------------------------------
(* categorize_error (pullrequests.py).  An exception is a record of its     *)
(* class and, for httpx.HTTPStatusError, the response status code.          *)

HttpStatuses == 400..599

ErrorClasses == {"TimeoutException", "ConnectError", "NetworkError",
                 "ValueError", "RuntimeError"}

HTTPStatusError(status) == [class |-> "HTTPStatusError", status |-> status]
OtherError(class) == [class |-> class, status |-> 0]

Errors == {HTTPStatusError(s) : s \in HttpStatuses}
              \cup {OtherError(c) : c \in ErrorClasses}

NoError == [class |-> "none", status |-> 0]

IsHTTPStatusError(e) == e.class = "HTTPStatusError"

\* The classifier with 403 treated as retryable.
categorize_error_403_transient(e) ==
    IF e.class = "TimeoutException" THEN "transient"
    ELSE IF e.class = "ConnectError" THEN "transient"
    ELSE IF IsHTTPStatusError(e)
         THEN IF e.status \in {401, 404, 422} THEN "fatal" ELSE "transient"
    ELSE "transient"

categorize_error(e) ==
    IF e.class = "TimeoutException" THEN "transient"
    ELSE IF e.class = "ConnectError" THEN "transient"
    ELSE IF IsHTTPStatusError(e)
         THEN IF e.status \in {401, 403, 404, 422} THEN "fatal"
              ELSE IF e.status \in {429, 500, 502, 503, 504} THEN "transient"
              ELSE "transient"
    ELSE "transient"

ClassifyIdle == error = NoError /\ category = "none"

Classify ==
    \E e \in Errors :
        /\ error' = e
        /\ category' = categorize_error(e)
        /\ UNCHANGED notClassify

-----------------------------------------------------------------------------
(* GitHubAPIClient.search_issues / search_all_issues (client.py).           *)
(* The search matches total_count items, numbered 1..total_count in the    *)
(* API's order; a page request returns its slice or fails.                  *)

\* Bounds of the search model.
MaxPerPage == 2
PageFactor == 5
MaxMaxResults == 3
MaxConcurrentLimit == 2

\* total_count ranges over 0..PageFactor * per_page, so at most PageFactor pages.
PageNumbers == 1..(PageFactor + 1)

\* GitHub's page-size limit applied by search_issues.
ApiMaxPerPage == 100

search_issues(total, per_page, page) ==
    LET pp == Min(per_page, ApiMaxPerPage)
        lo == (page - 1) * pp + 1
        hi == Min(page * pp, total)
    IN  [i \in 1..Max(0, hi - lo + 1) |-> lo + i - 1]

SearchArgsFor(p) ==
    { [total_count |-> n, per_page |-> p, max_results |-> k,
       max_concurrent_pages |-> c] :
        n \in 0..(PageFactor * p),
        k \in {None} \cup {Some(x) : x \in 0..MaxMaxResults},
        c \in 1..MaxConcurrentLimit }

SearchArgs == UNION { SearchArgsFor(p) : p \in 1..MaxPerPage }

\* Python truthiness of max_results: None and 0 are both false.
Truthy(o) == ~IsNone(o) /\ Get(o) /= 0

TargetCount(total, max_results) ==
    IF Truthy(max_results) THEN Min(total, Get(max_results)) ELSE total

\* total_pages rounded down instead of up.
TotalPages_floor(target, per_page) == target \div per_page

\* total_pages with one page too many.
TotalPages_one_more(target, per_page) ==
    (target + per_page - 1) \div per_page + 1

TotalPages(target, per_page) == (target + per_page - 1) \div per_page

RECURSIVE Concat_last_page_first(_, _, _)
\* The results combined from the last page to the second.
Concat_last_page_first(results, from, to) ==
    IF from > to THEN <<>>
    ELSE Concat_last_page_first(results, from + 1, to)
             \o (IF results[from].st = "ok" THEN results[from].items ELSE <<>>)

RECURSIVE Concat(_, _, _)
\* all_items.extend(...) over remaining_results in task order (pages from..to).
Concat(results, from, to) ==
    IF from > to THEN <<>>
    ELSE (IF results[from].st = "ok" THEN results[from].items ELSE <<>>)
             \o Concat(results, from + 1, to)

CountRequest(page) ==
    searchRequests' = [searchRequests EXCEPT ![page] = @ + 1]

SearchIdle ==
    /\ searchArgs = [total_count |-> 0, per_page |-> 1, max_results |-> None,
                     max_concurrent_pages |-> 1]
    /\ searchPc = "idle"
    /\ first_items = <<>>
    /\ target_count = 0
    /\ total_pages = 0
    /\ remaining_results = <<>>
    /\ return_items = <<>>
    /\ searchRequests = [p \in PageNumbers |-> 0]

SearchInit ==
    /\ searchArgs \in SearchArgs
    /\ searchPc = "start"
    /\ first_items = <<>>
    /\ target_count = 0
    /\ total_pages = 0
    /\ remaining_results = <<>>
    /\ return_items = <<>>
    /\ searchRequests = [p \in PageNumbers |-> 0]

\* The first page request fails: the error propagates to the caller.
SearchFirstPageFails ==
    /\ searchPc = "start"
    /\ CountRequest(1)
    /\ searchPc' = "raised"
    /\ UNCHANGED <<searchArgs, first_items, target_count, total_pages,
                   remaining_results, return_items>>
    /\ UNCHANGED notSearch

\* Lines 257-287: first page, target, early return or choice of strategy.
SearchFirstPage ==
    /\ searchPc = "start"
    /\ CountRequest(1)
    /\ LET a == searchArgs
           items == search_issues(a.total_count, a.per_page, 1)
           target == TargetCount(a.total_count, a.max_results)
           pages == TotalPages(target, a.per_page)
       IN  /\ first_items' = items
           /\ target_count' = target
           /\ IF Len(items) >= target
              THEN /\ return_items' = Take(items, target)
                   /\ searchPc' = "done"
                   /\ UNCHANGED <<total_pages, remaining_results>>
              ELSE /\ total_pages' = pages
                   /\ return_items' = <<>>
                   /\ IF pages <= 2
                      THEN /\ searchPc' = "sequential"
                           /\ UNCHANGED remaining_results
                      ELSE /\ searchPc' = "concurrent"
                           /\ remaining_results' =
                                  [p \in 1..pages |->
                                      [st |-> IF p = 1 THEN "first" ELSE "waiting",
                                       items |-> <<>>]]
    /\ UNCHANGED searchArgs
    /\ UNCHANGED notSearch

\* Lines 277-282: page 2 fetched in line; its failure is not caught.
SearchSecondPage ==
    /\ searchPc = "sequential"
    /\ CountRequest(2)
    /\ LET a == searchArgs
           all_items == first_items \o search_issues(a.total_count, a.per_page, 2)
       IN  return_items' = Take(all_items, target_count)
    /\ searchPc' = "done"
    /\ UNCHANGED <<searchArgs, first_items, target_count, total_pages,
                   remaining_results>>
    /\ UNCHANGED notSearch

SearchSecondPageFails ==
    /\ searchPc = "sequential"
    /\ CountRequest(2)
    /\ searchPc' = "raised"
    /\ UNCHANGED <<searchArgs, first_items, target_count, total_pages,
                   remaining_results, return_items>>
    /\ UNCHANGED notSearch

\* A count that sees no page in flight.
PagesInFlight_none ==
    Cardinality({p \in DOMAIN remaining_results :
                    remaining_results[p].st = "gathered"})

PagesInFlight ==
    Cardinality({p \in DOMAIN remaining_results :
                    remaining_results[p].st = "inflight"})

\* fetch_page_with_semaphore: enter the semaphore and send the request.
FetchPageAcquire(page) ==
    /\ searchPc = "concurrent"
    /\ page \in DOMAIN remaining_results
    /\ remaining_results[page].st = "waiting"
    /\ PagesInFlight < searchArgs.max_concurrent_pages
    /\ CountRequest(page)
    /\ remaining_results' = [remaining_results EXCEPT ![page].st = "inflight"]
    /\ UNCHANGED <<searchArgs, searchPc, first_items, target_count,
                   total_pages, return_items>>
    /\ UNCHANGED notSearch

\* fetch_page_with_semaphore: the response arrives.
FetchPageReturns(page) ==
    /\ searchPc = "concurrent"
    /\ page \in DOMAIN remaining_results
    /\ remaining_results[page].st = "inflight"
    /\ remaining_results' =
           [remaining_results EXCEPT ![page] =
               [st |-> "ok",
                items |-> search_issues(searchArgs.total_count,
                                        searchArgs.per_page, page)]]
    /\ UNCHANGED <<searchArgs, searchPc, first_items, target_count,
                   total_pages, return_items, searchRequests>>
    /\ UNCHANGED notSearch

\* fetch_page_with_semaphore: the request fails; logged, None returned.
FetchPageFails(page) ==
    /\ searchPc = "concurrent"
    /\ page \in DOMAIN remaining_results
    /\ remaining_results[page].st = "inflight"
    /\ remaining_results' = [remaining_results EXCEPT ![page].st = "failed"]
    /\ UNCHANGED <<searchArgs, searchPc, first_items, target_count,
                   total_pages, return_items, searchRequests>>
    /\ UNCHANGED notSearch

\* Lines 302-313: gather returns, results combined in task order, truncated.
SearchGather ==
    /\ searchPc = "concurrent"
    /\ \A p \in DOMAIN remaining_results :
           remaining_results[p].st \in {"first", "ok", "failed"}
    /\ LET all_items == first_items \o Concat(remaining_results, 2, total_pages)
       IN  return_items' = Take(all_items, target_count)
    /\ searchPc' = "done"
    /\ UNCHANGED <<searchArgs, first_items, target_count, total_pages,
                   remaining_results, searchRequests>>
    /\ UNCHANGED notSearch

SearchNext ==
    \/ SearchFirstPage
    \/ SearchFirstPageFails
    \/ SearchSecondPage
    \/ SearchSecondPageFails
    \/ \E page \in PageNumbers : FetchPageAcquire(page)
    \/ \E page \in PageNumbers : FetchPageReturns(page)
    \/ \E page \in PageNumbers : FetchPageFails(page)
    \/ SearchGather

-----------------------------------------------------------------------------
(* fetch_repository_star_increase (stargazers.py).                          *)
(* Time is counted in ticks from GitHub's launch.  A repository with n      *)
(* stars got one star per tick after the launch, so the stargazer edges,    *)
(* newest first, are strictly descending in time.                           *)

\* Bound of the star model: calls made one after the other.
MaxStarCalls == 2

Repos == {"acme/widget", "acme/gadget"}

\* The star totals of the two repositories.
StargazerChoices ==
    { [r \in Repos |-> IF r = "acme/widget" THEN c[1] ELSE c[2]] :
        c \in {<<3, 250>>, <<1205, 0>>} }

\* The (since, until) windows asked for.
Windows == {<<-3, 1300>>, <<0, 1300>>, <<2, 1300>>, <<120, 240>>,
            <<206, 1300>>, <<207, 1300>>}

\* datetime(2008, 1, 1)
GitHubLaunch == 0
\* stargazers(first: 100, ...)
StargazerPageSize == 100
\* if star_count >= 1000
StarLimit == 1000

StarKeys == { [repo |-> r, since |-> w[1], until |-> w[2]] :
                 r \in Repos, w \in Windows }

NoCall == [repo |-> "", since |-> 0, until |-> 0]

\* No call has returned yet.
NoReturn == [key |-> NoCall, result |-> None, path |-> "none",
             outcome |-> "none", graphql |-> 0, rest |-> 0, writes |-> <<>>,
             repeat |-> None]

\* starredAt of the i-th edge, newest first, of a repository with n stars.
StarredAt(n, i) == GitHubLaunch + n - i + 1

\* The GraphQL stargazers connection: the page after the first `after` edges.
\* The cursor is the number of edges already returned; 0 stands for no cursor.
StargazersPage(n, after) ==
    LET len == Min(StargazerPageSize, n - after)
    IN  [edges |-> [i \in 1..len |-> StarredAt(n, after + i)],
         endCursor |-> after + len,
         hasNextPage |-> after + len < n]

\* A cache key without the start of the window.
CacheKey_without_since(key) ==
    <<"repo:", key.repo, ":star_increase:", ":", key.until>>

\* f"repo:{owner}/{repo}:star_increase:{since.isoformat()}:{until.isoformat()}"
\* as the sequence of its parts; owner/repo is the repository's full name.
CacheKey(key) ==
    <<"repo:", key.repo, ":star_increase:", key.since, ":", key.until>>

CacheKeys == {CacheKey(k) : k \in StarKeys}

\* The persistent cache: get_cached / set_cached.
get_cached(cache, key) == cache[key]
set_cached(cache, key, value) == [cache EXCEPT ![key] = Some(value)]

\* An all-time test that leaves out the launch date itself.
AllTimeQuery_strict(since) == since < GitHubLaunch

\* An error answered with a count of 0.
StarErrorResult_zero(e) == Some(0)

\* A cache check on truthiness instead of `is not None`.
CacheHit_truthy(cached_result) ==
    ~IsNone(cached_result) /\ Get(cached_result) /= 0

\* if cached_result is not None
CacheHit(cached_result) == ~IsNone(cached_result)

\* if since <= github_launch
AllTimeQuery(since) == since <= GitHubLaunch

\* A loop body that counts an edge in the window downwards.
ScanEdge_counting_down(starred_at, since, until, count) ==
    IF starred_at < since THEN [star_count |-> count, stop |-> "early"]
    ELSE IF since <= starred_at /\ starred_at <= until
         THEN [star_count |-> count - 1, stop |-> "no"]
         ELSE [star_count |-> count, stop |-> "no"]

\* The body of the for loop for one edge, with the count so far.
\* stop: "no" (go on), "early" (the edge is before since), "limit".
ScanEdge(starred_at, since, until, count) ==
    IF starred_at < since THEN [star_count |-> count, stop |-> "early"]
    ELSE IF since <= starred_at /\ starred_at <= until
         THEN IF count + 1 >= StarLimit
              THEN [star_count |-> count + 1, stop |-> "limit"]
              ELSE [star_count |-> count + 1, stop |-> "no"]
         ELSE [star_count |-> count, stop |-> "no"]

RECURSIVE ScanEdges(_, _, _, _, _, _)
\* The for loop over edges lo..hi of one page, left to right, leaving the loop
\* at the first edge that stops it (the range is halved to keep the
\* evaluation shallow; the order of the edges is kept).
ScanEdges(edges, lo, hi, since, until, count) ==
    IF lo > hi THEN [star_count |-> count, stop |-> "no"]
    ELSE IF lo = hi THEN ScanEdge(edges[lo], since, until, count)
    ELSE LET mid == (lo + hi) \div 2
             left == ScanEdges(edges, lo, mid, since, until, count)
         IN  IF left.stop /= "no" THEN left
             ELSE ScanEdges(edges, mid + 1, hi, since, until, left.star_count)

\* A break that leaves has_next_page as the API reported it.
NextPageWanted_break_only(stop, hasNextPage) == hasNextPage

\* has_next_page after a page: False on early termination, else pageInfo's.
NextPageWanted(stop, hasNextPage) ==
    IF stop = "early" THEN FALSE ELSE hasNextPage

\* The except clauses of lines 146-160 and 68-70: every error gives None.
StarErrorResult(e) ==
    IF e.class = "TimeoutException" THEN None
    ELSE IF IsHTTPStatusError(e) THEN None
    ELSE IF e.class = "ValueError" THEN None
    ELSE None

StarErrors == {OtherError("TimeoutException"), HTTPStatusError(403),
               HTTPStatusError(502), OtherError("ValueError"),
               OtherError("RuntimeError")}

StarIdle ==
    /\ stargazers = [r \in Repos |-> 0]
    /\ starCache = [k \in CacheKeys |-> None]
    /\ starPc = "off"
    /\ starCall = NoCall
    /\ star_count = 0
    /\ cursor = 0
    /\ has_next_page = FALSE
    /\ graphqlRequests = 0
    /\ restRequests = 0
    /\ cacheWrites = <<>>
    /\ starCalls = 0
    /\ starReturned = NoReturn
    /\ starSucceeded = [k \in StarKeys |-> None]

StarInit ==
    /\ stargazers \in StargazerChoices
    /\ starCache = [k \in CacheKeys |-> None]
    /\ starPc = "idle"
    /\ starCall = NoCall
    /\ star_count = 0
    /\ cursor = 0
    /\ has_next_page = FALSE
    /\ graphqlRequests = 0
    /\ restRequests = 0
    /\ cacheWrites = <<>>
    /\ starCalls = 0
    /\ starReturned = NoReturn
    /\ starSucceeded = [k \in StarKeys |-> None]

\* The call returns `result`.  The finished call is recorded, with what the
\* last successful call with the same arguments had returned (repeat).
StarReturn(key, result, path, outcome, graphql, rest, writes) ==
    /\ starPc' = "returned"
    /\ starReturned' = [key |-> key, result |-> result, path |-> path,
                        outcome |-> outcome, graphql |-> graphql,
                        rest |-> rest, writes |-> writes,
                        repeat |-> starSucceeded[key]]
    /\ starSucceeded' = IF IsNone(result) THEN starSucceeded
                        ELSE [starSucceeded EXCEPT ![key] = result]

\* Lines 47-90: the cache check and the choice of path.
StarCallBegin(key) ==
    /\ starPc \in {"idle", "returned"}
    /\ starCalls < MaxStarCalls
    /\ starCalls' = starCalls + 1
    /\ starCall' = key
    /\ graphqlRequests' = 0
    /\ restRequests' = 0
    /\ cacheWrites' = <<>>
    /\ star_count' = 0
    /\ cursor' = 0
    /\ LET cached_result == get_cached(starCache, CacheKey(key))
       IN  IF CacheHit(cached_result)
           THEN /\ StarReturn(key, cached_result, "cache", "ok", 0, 0, <<>>)
                /\ has_next_page' = FALSE
           ELSE IF AllTimeQuery(key.since)
           THEN /\ starPc' = "rest"
                /\ has_next_page' = FALSE
                /\ UNCHANGED <<starReturned, starSucceeded>>
           ELSE /\ starPc' = "paging"
                /\ has_next_page' = TRUE
                /\ UNCHANGED <<starReturned, starSucceeded>>
    /\ UNCHANGED <<stargazers, starCache>>
    /\ UNCHANGED notStars

\* Lines 60-67: the repository's total stargazers_count, cached and returned.
StarRestReturns ==
    /\ starPc = "rest"
    /\ LET total_stars == stargazers[starCall.repo]
       IN  /\ starCache' = set_cached(starCache, CacheKey(starCall),
                                      total_stars)
           /\ cacheWrites' = Append(cacheWrites, total_stars)
           /\ restRequests' = restRequests + 1
           /\ StarReturn(starCall, Some(total_stars), "rest", "ok", graphqlRequests,
                         restRequests + 1, Append(cacheWrites, total_stars))
    /\ UNCHANGED <<stargazers, starCall, star_count, cursor, has_next_page,
                   graphqlRequests, starCalls>>
    /\ UNCHANGED notStars

\* Lines 68-70: get_repository fails.
StarRestFails ==
    /\ starPc = "rest"
    /\ \E e \in StarErrors :
           StarReturn(starCall, StarErrorResult(e), "rest", "error", graphqlRequests,
                      restRequests + 1, cacheWrites)
    /\ restRequests' = restRequests + 1
    /\ UNCHANGED <<stargazers, starCache, starCall, star_count, cursor,
                   has_next_page, graphqlRequests, cacheWrites, starCalls>>
    /\ UNCHANGED notStars

\* Lines 93-144: one iteration of the while loop whose GraphQL request
\* succeeds, and, when the loop ends with it, the caching and the return.
StarPageReturns ==
    /\ starPc = "paging"
    /\ has_next_page
    /\ LET page == StargazersPage(stargazers[starCall.repo], cursor)
           scan == ScanEdges(page.edges, 1, Len(page.edges), starCall.since,
                             starCall.until, star_count)
           next == NextPageWanted(scan.stop, page.hasNextPage)
       IN  /\ graphqlRequests' = graphqlRequests + 1
           /\ star_count' = scan.star_count
           /\ IF scan.stop = "limit"
              THEN /\ starCache' = set_cached(starCache, CacheKey(starCall), -1)
                   /\ cacheWrites' = Append(cacheWrites, -1)
                   /\ StarReturn(starCall, Some(-1), "graphql", "ok", graphqlRequests + 1,
                                 restRequests, Append(cacheWrites, -1))
                   /\ UNCHANGED <<cursor, has_next_page>>
              ELSE IF next
              THEN /\ has_next_page' = TRUE
                   /\ cursor' = page.endCursor
                   /\ UNCHANGED <<starCache, cacheWrites, starPc, starReturned,
                                  starSucceeded>>
              ELSE /\ has_next_page' = FALSE
                   /\ cursor' = IF scan.stop = "early" THEN cursor
                                ELSE page.endCursor
                   /\ starCache' = set_cached(starCache, CacheKey(starCall),
                                              scan.star_count)
                   /\ cacheWrites' = Append(cacheWrites, scan.star_count)
                   /\ StarReturn(starCall, Some(scan.star_count), "graphql", "ok",
                                 graphqlRequests + 1, restRequests,
                                 Append(cacheWrites, scan.star_count))
    /\ UNCHANGED <<stargazers, starCall, restRequests, starCalls>>
    /\ UNCHANGED notStars

\* Lines 101-104: the response holds no repository.
StarPageRepositoryNotFound ==
    /\ starPc = "paging"
    /\ has_next_page
    /\ graphqlRequests' = graphqlRequests + 1
    /\ StarReturn(starCall, None, "graphql", "notfound", graphqlRequests + 1,
                  restRequests, cacheWrites)
    /\ UNCHANGED <<stargazers, starCache, starCall, star_count, cursor,
                   has_next_page, restRequests, cacheWrites, starCalls>>
    /\ UNCHANGED notStars

\* Lines 146-160: execute_graphql raises.
StarPageFails ==
    /\ starPc = "paging"
    /\ has_next_page
    /\ graphqlRequests' = graphqlRequests + 1
    /\ \E e \in StarErrors :
           StarReturn(starCall, StarErrorResult(e), "graphql", "error",
                      graphqlRequests + 1, restRequests, cacheWrites)
    /\ UNCHANGED <<stargazers, starCache, starCall, star_count, cursor,
                   has_next_page, restRequests, cacheWrites, starCalls>>
    /\ UNCHANGED notStars

StarNext ==
    \/ \E key \in StarKeys : StarCallBegin(key)
    \/ StarRestReturns
    \/ StarRestFails
    \/ StarPageReturns
    \/ StarPageRepositoryNotFound
    \/ StarPageFails

-----------------------------------------------------------------------------
(* fetch_pr_files (pullrequests.py).                                        *)
(* A file-diff record of the API holds a filename (or none) and additions   *)
(* and deletions (or none); a cache entry is absent, a 4-tuple, or          *)
(* something else.  The cache is keyed by the PR (owner, repo, number).     *)

\* Bounds of the file model: files of one PR, PRs with a cache entry.
MaxFiles == 2
MaxItems == 3

PrNumbers == 1..MaxItems

FileRecords ==
    [has_filename : BOOLEAN,
     additions : {None, Some(-3), Some(2), Some(7)},
     deletions : {Some(-1), Some(5)}]

FileLists == UNION { [1..n -> FileRecords] : n \in 0..MaxFiles }

FileSummary(file_names, additions, deletions, changed_files) ==
    [file_names |-> file_names, additions |-> additions,
     deletions |-> deletions, changed_files |-> changed_files]

\* return ([], 0, 0, 0)
EmptyData == FileSummary(<<>>, 0, 0, 0)

Absent == [kind |-> "absent", data |-> EmptyData]
Malformed == [kind |-> "malformed", data |-> EmptyData]
CachedTuple(data) == [kind |-> "tuple", data |-> data]

\* What the cache may hold for a PR before a call.
InitialEntries ==
    {Absent, Malformed,
     CachedTuple(FileSummary(<<1>>, 2, 5, 1)),
     CachedTuple(FileSummary(<<1>>, -3, 5, 1)),
     CachedTuple(FileSummary(<<1>>, 2, -1, 1)),
     CachedTuple(FileSummary(<<>>, 0, 0, -1))}

\* file.get("additions", 0) without the clamp.
FileStat_unclamped(stat) == IF IsNone(stat) THEN 0 ELSE Get(stat)

\* max(0, file.get("additions", 0))
FileStat(stat) == Max(0, IF IsNone(stat) THEN 0 ELSE Get(stat))

RECURSIVE SumFiles(_, _, _)
\* Lines 152-174: the loop over the files from index i on, with the totals so
\* far; a file's name is its position in the response.
SumFiles(files, i, acc) ==
    IF i > Len(files)
    THEN FileSummary(acc.file_names, acc.additions, acc.deletions,
                     Len(acc.file_names))
    ELSE SumFiles(files, i + 1,
             [file_names |-> IF files[i].has_filename
                             THEN Append(acc.file_names, i)
                             ELSE acc.file_names,
              additions |-> acc.additions + FileStat(files[i].additions),
              deletions |-> acc.deletions + FileStat(files[i].deletions)])

\* Lines 118-138: the cached tuple is well formed and non-negative.
\* A validation that accepts every 4-tuple.
CachedUsable_any_tuple(cached_data) == cached_data.kind = "tuple"

CachedUsable(cached_data) ==
    /\ cached_data.kind = "tuple"
    /\ ~(cached_data.data.additions < 0 \/ cached_data.data.deletions < 0
             \/ cached_data.data.changed_files < 0)

\* What a cache read or write may raise.
CacheError == OtherError("ConnectError")

\* The outcome of the calls after the cache read: client.get_pr_files returns
\* the files and cache.set stores the result, or the files are returned and
\* cache.set raises, or get_pr_files raises.
FilesOk(files) == [ok |-> TRUE, files |-> files, error |-> NoError]
FilesUnstored(files) == [ok |-> TRUE, files |-> files, error |-> CacheError]
FilesError(e) == [ok |-> FALSE, files |-> <<>>, error |-> e]

FileFetchErrors == {HTTPStatusError(404), HTTPStatusError(503),
                    OtherError("TimeoutException")}

\* A fetch_pr_files that caches the zeroed stats of a failed file listing.
fetch_pr_files_caching_failures(cached_data, outcome) ==
    IF CachedUsable(cached_data)
    THEN [result |-> cached_data.data, write |-> None, fetched |-> FALSE]
    ELSE IF outcome.ok /\ outcome.error = NoError
    THEN LET result == SumFiles(outcome.files, 1,
                           [file_names |-> <<>>, additions |-> 0,
                            deletions |-> 0])
         IN  [result |-> result, write |-> Some(result), fetched |-> TRUE]
    ELSE [result |-> EmptyData, write |-> Some(EmptyData), fetched |-> TRUE]

\* fetch_pr_files: the tuple returned, the tuple written to the cache (or
\* none) and whether the file-listing call was made, from the cache entry
\* and the outcome of the calls.
fetch_pr_files(cached_data, outcome) ==
    IF CachedUsable(cached_data)
    THEN [result |-> cached_data.data, write |-> None, fetched |-> FALSE]
    ELSE IF outcome.ok /\ outcome.error = NoError
    THEN LET result == SumFiles(outcome.files, 1,
                           [file_names |-> <<>>, additions |-> 0,
                            deletions |-> 0])
         IN  [result |-> result, write |-> Some(result), fetched |-> TRUE]
    ELSE IF IsHTTPStatusError(outcome.error) /\ outcome.error.status = 404
    THEN [result |-> EmptyData, write |-> None, fetched |-> TRUE]
    ELSE IF IsHTTPStatusError(outcome.error)
    THEN [result |-> EmptyData, write |-> None, fetched |-> TRUE]
    ELSE [result |-> EmptyData, write |-> None, fetched |-> TRUE]

\* cache.set(cache_key, result, ttl=ttl), when the call wrote.
CacheAfter(cache, number, done) ==
    IF IsNone(done.write) THEN cache
    ELSE [cache EXCEPT ![number] = CachedTuple(Get(done.write))]

HasNegative(files) ==
    \E i \in 1..Len(files) :
        \/ FileStat_unclamped(files[i].additions) < 0
        \/ FileStat_unclamped(files[i].deletions) < 0

NoFilesReturn == [number |-> 0, result |-> EmptyData, write |-> None,
                  fetched |-> FALSE, negative |-> FALSE, files |-> 0,
                  cached |-> Absent, call |-> "none"]

FilesIdle ==
    /\ fileCache = [n \in PrNumbers |-> Absent]
    /\ filesReturned = NoFilesReturn

\* One PR, called again and again, over whatever its cache entry holds.
FilesInit ==
    /\ \E entry \in InitialEntries :
           fileCache = [n \in PrNumbers |-> IF n = 1 THEN entry ELSE Absent]
    /\ filesReturned = NoFilesReturn

\* What a call of fetch_pr_files for PR `number` leaves behind, when its
\* file-listing call, if made, has the outcome `outcome`.
FilesReturn(number, outcome, done) ==
    [number |-> number, result |-> done.result, write |-> done.write,
     fetched |-> done.fetched,
     negative |-> done.fetched /\ HasNegative(outcome.files),
     files |-> IF done.fetched THEN Len(outcome.files) ELSE 0,
     cached |-> fileCache[number],
     call |-> IF ~done.fetched THEN "none"
              ELSE IF ~outcome.ok THEN "failed"
              ELSE IF outcome.error = NoError THEN "stored"
              ELSE "unstored"]

\* A call whose file listing, if requested, succeeds.
FetchPrFilesOk ==
    \E files \in FileLists :
        LET done == fetch_pr_files(fileCache[1], FilesOk(files))
        IN  /\ fileCache' = CacheAfter(fileCache, 1, done)
            /\ filesReturned' = FilesReturn(1, FilesOk(files), done)
            /\ UNCHANGED notFiles

\* A call whose file listing, if requested, succeeds, and whose cache write
\* raises.
FetchPrFilesUnstored ==
    \E files \in FileLists :
        LET done == fetch_pr_files(fileCache[1], FilesUnstored(files))
        IN  /\ fileCache' = CacheAfter(fileCache, 1, done)
            /\ filesReturned' = FilesReturn(1, FilesUnstored(files), done)
            /\ UNCHANGED notFiles

\* A call whose file listing, if requested, fails.
FetchPrFilesFails ==
    \E e \in FileFetchErrors :
        LET done == fetch_pr_files(fileCache[1], FilesError(e))
        IN  /\ fileCache' = CacheAfter(fileCache, 1, done)
            /\ filesReturned' = FilesReturn(1, FilesError(e), done)
            /\ UNCHANGED notFiles

FilesNext == FetchPrFilesOk \/ FetchPrFilesUnstored \/ FetchPrFilesFails

-----------------------------------------------------------------------------
(* PullRequestCollector.collect_user_prs (pullrequests.py) and              *)
(* collect_repository_star_increases (stargazers.py).                       *)
(* The search is one call that returns the items or raises; every PR then   *)
(* gets a fetch_pr_metrics task under the file-fetch semaphore, and every   *)
(* distinct repository a fetch_with_semaphore task under the star           *)
(* semaphore.  A PR's number is its position in the search result.          *)

\* Bound: the slots of the file-fetch semaphore (a setting).
github_pr_file_fetch_concurrency == 2

\* max_retries = 3 in fetch_pr_metrics; max_concurrent = 10.
max_retries == 3
max_concurrent == 10

\* The repositories of the PRs found: every name has the form owner/name.
RepoNames == Repos

\* repository.split("/", 1)
RepoParts(repository) ==
    IF repository = "acme/widget" THEN <<"acme", "widget">>
    ELSE IF repository = "acme/gadget" THEN <<"acme", "gadget">>
    ELSE <<repository>>

PrItem(repository) == [kind |-> "pr", repository |-> repository]
IssueItem == [kind |-> "issue", repository |-> "acme/widget"]
MalformedItem == [kind |-> "malformed", repository |-> "acme/widget"]

ItemKinds == {PrItem(r) : r \in RepoNames} \cup {IssueItem, MalformedItem}

ItemLists == UNION { [1..n -> ItemKinds] : n \in 0..MaxItems }

\* What the search call may raise.
SearchErrors == {HTTPStatusError(404), HTTPStatusError(422),
                 HTTPStatusError(403), HTTPStatusError(500),
                 OtherError("TimeoutException")}

\* What fetch_repository_star_increase may return, and raise.
StarResults == {None, Some(7)}
StarRaises == {OtherError("RuntimeError")}

CollectArgs ==
    [include_star_increase : BOOLEAN, since : BOOLEAN, until : BOOLEAN]

PullRequestInfo(number, repository) ==
    [number |-> number, repository |-> repository, additions |-> None,
     deletions |-> None, changed_files |-> None, star_increase |-> None]

RECURSIVE ParseItems_reversed(_, _)
\* A parse that puts every new PR in front of the list.
ParseItems_reversed(its, i) ==
    IF i > Len(its) THEN <<>>
    ELSE IF its[i].kind = "issue" THEN ParseItems_reversed(its, i + 1)
    ELSE IF its[i].kind = "malformed" THEN ParseItems_reversed(its, i + 1)
    ELSE ParseItems_reversed(its, i + 1)
             \o <<PullRequestInfo(i, its[i].repository)>>

RECURSIVE ParseItems(_, _)
\* Lines 279-343: the items from index i on that are PRs and parse.
ParseItems(its, i) ==
    IF i > Len(its) THEN <<>>
    ELSE IF its[i].kind = "issue" THEN ParseItems(its, i + 1)
    ELSE IF its[i].kind = "malformed" THEN ParseItems(its, i + 1)
    ELSE <<PullRequestInfo(i, its[i].repository)>> \o ParseItems(its, i + 1)

CollectionStats(total_prs) ==
    [total_prs |-> total_prs, file_fetch_success |-> 0,
     file_fetch_failed |-> 0, file_fetch_cached |-> 0, failed_prs |-> <<>>]

\* f"{pr.repository}#{pr.number}"
PrId(pr) == <<pr.repository, pr.number>>

\* The files GitHub lists for a PR.
FilesOf(number) ==
    [i \in 1..1 |-> [has_filename |-> TRUE, additions |-> Some(2),
                     deletions |-> Some(5)]]

\* A fetch_pr_metrics task: its loop variable while it runs, and the category
\* of the outcome of its file-listing call once it has returned.
WaitingTask == [st |-> "waiting", attempt |-> 0, transport |-> "none"]
DoneTask(transport) == [st |-> "done", attempt |-> 0, transport |-> transport]

NoStarTask == [st |-> "off", result |-> None, raised |-> FALSE,
               error |-> NoError, failed |-> FALSE, fetches |-> 0]

NotReturned == [kind |-> "none", value |-> <<>>, error |-> NoError]
Returned(value) == [kind |-> "returned", value |-> value, error |-> NoError]
Raised(e) == [kind |-> "raised", value |-> <<>>, error |-> e]

\* The handler 404 -> return [] only.
CollectHandle_only_404(e) ==
    IF IsHTTPStatusError(e) /\ e.status = 404 THEN Returned(<<>>)
    ELSE Raised(e)

\* Lines 481-497: what collect_user_prs does with an exception.
CollectHandle(e) ==
    IF IsHTTPStatusError(e)
    THEN IF e.status = 404 THEN Returned(<<>>)
         ELSE IF e.status = 422 THEN Returned(<<>>)
         ELSE IF e.status = 403 THEN Raised(e)
         ELSE Raised(e)
    ELSE Raised(e)

\* The test without `until`.
StarsWanted_without_until(args) == args.include_star_increase /\ args.since

\* if include_star_increase and since and until
StarsWanted(args) == args.include_star_increase /\ args.since /\ args.until

\* {pr.repository for pr in pull_requests}
Repositories(prs) == {prs[i].repository : i \in 1..Len(prs)}

CollectIdle ==
    /\ collectArgs = [include_star_increase |-> FALSE, since |-> FALSE,
                      until |-> FALSE]
    /\ collectPc = "idle"
    /\ searchItems = <<>>
    /\ searchError = NoError
    /\ pull_requests = <<>>
    /\ stats = CollectionStats(0)
    /\ metrics = <<>>
    /\ starTasks = [r \in RepoNames |-> NoStarTask]
    /\ collectReturned = NotReturned

CollectInit ==
    /\ collectArgs \in CollectArgs
    /\ collectPc = "search"
    /\ searchItems = <<>>
    /\ searchError = NoError
    /\ pull_requests = <<>>
    /\ stats = CollectionStats(0)
    /\ metrics = <<>>
    /\ starTasks = [r \in RepoNames |-> NoStarTask]
    /\ collectReturned = NotReturned

\* The run is over: return pull_requests.
CollectReturn(prs) ==
    /\ collectReturned' = Returned(prs)
    /\ collectPc' = "done"

\* Lines 267-360: the search returns; the items are parsed, and the
\* enrichment tasks are created unless there is no PR.
CollectSearchReturns ==
    /\ collectPc = "search"
    /\ \E its \in ItemLists :
           LET prs == ParseItems(its, 1)
           IN  /\ searchItems' = its
               /\ pull_requests' = prs
               /\ stats' = CollectionStats(Len(prs))
               /\ metrics' = [i \in 1..Len(prs) |-> WaitingTask]
               /\ IF prs /= <<>>
                  THEN /\ collectPc' = "enrich"
                       /\ UNCHANGED collectReturned
                  ELSE CollectReturn(prs)
    /\ UNCHANGED <<collectArgs, searchError, starTasks,
                   fileCache>>
    /\ UNCHANGED notCollect

\* Lines 267, 481-497: the search raises.
CollectSearchFails ==
    /\ collectPc = "search"
    /\ \E e \in SearchErrors :
           /\ searchError' = e
           /\ collectReturned' = CollectHandle(e)
    /\ collectPc' = "done"
    /\ UNCHANGED <<collectArgs, searchItems, pull_requests, stats, metrics,
                   starTasks, fileCache>>
    /\ UNCHANGED notCollect

MetricsRunning == {i \in 1..Len(metrics) : metrics[i].st = "running"}

\* Lines 367, 425: a task enters the semaphore.  gather starts the tasks in
\* the order of the list and the semaphore wakes its waiters first come
\* first served, so the slots are taken in the order of the list.
MetricsAcquire(i) ==
    /\ collectPc = "enrich"
    /\ i \in 1..Len(metrics)
    /\ metrics[i].st = "waiting"
    /\ \A j \in 1..(i - 1) : metrics[j].st /= "waiting"
    /\ Cardinality(MetricsRunning) < github_pr_file_fetch_concurrency
    /\ metrics' = [metrics EXCEPT ![i].st = "running"]
    /\ UNCHANGED <<collectArgs, collectPc, searchItems, searchError,
                   pull_requests, stats, starTasks,
                   collectReturned, fileCache>>
    /\ UNCHANGED notCollect

\* A handler that retries every transient error, however many attempts
\* were made.
MetricsRaised_never_exhausted(i, e) ==
    IF categorize_error(e) = "fatal"
    THEN /\ stats' = [stats EXCEPT
                 !.file_fetch_failed = @ + 1,
                 !.failed_prs = Append(@, PrId(pull_requests[i]))]
         /\ metrics' = [metrics EXCEPT ![i] = DoneTask("none")]
    ELSE /\ metrics' = [metrics EXCEPT ![i].attempt = @ + 1]
         /\ UNCHANGED stats

\* A handler that records the identifier of a failed PR without counting it.
MetricsRaised_uncounted(i, e) ==
    IF categorize_error(e) = "fatal" \/ metrics[i].attempt = max_retries
    THEN /\ stats' = [stats EXCEPT
                 !.failed_prs = Append(@, PrId(pull_requests[i]))]
         /\ metrics' = [metrics EXCEPT ![i] = DoneTask("none")]
    ELSE /\ metrics' = [metrics EXCEPT ![i].attempt = @ + 1]
         /\ UNCHANGED stats

\* A handler that starts the attempts over when they are exhausted.
MetricsRaised_restarts(i, e) ==
    IF categorize_error(e) = "fatal"
    THEN /\ stats' = [stats EXCEPT
                 !.file_fetch_failed = @ + 1,
                 !.failed_prs = Append(@, PrId(pull_requests[i]))]
         /\ metrics' = [metrics EXCEPT ![i] = DoneTask("none")]
    ELSE /\ metrics' = [metrics EXCEPT ![i].attempt =
                            IF @ = max_retries THEN 0 ELSE @ + 1]
         /\ UNCHANGED stats

\* Lines 401-422: the handler of an attempt that raised e.
MetricsRaised(i, e) ==
    IF categorize_error(e) = "fatal" \/ metrics[i].attempt = max_retries
    THEN /\ stats' = [stats EXCEPT
                 !.file_fetch_failed = @ + 1,
                 !.failed_prs = Append(@, PrId(pull_requests[i]))]
         /\ metrics' = [metrics EXCEPT ![i] = DoneTask("none")]
    ELSE /\ metrics' = [metrics EXCEPT ![i].attempt = @ + 1]
         /\ UNCHANGED stats

\* Lines 379, 117: an attempt whose cache read raises.
MetricsCacheFails(i) ==
    /\ collectPc = "enrich"
    /\ i \in 1..Len(metrics)
    /\ metrics[i].st = "running"
    /\ Len(RepoParts(pull_requests[i].repository)) = 2
    /\ MetricsRaised(i, CacheError)
    /\ UNCHANGED <<collectArgs, collectPc, searchItems, searchError,
                   pull_requests, starTasks, collectReturned, fileCache>>
    /\ UNCHANGED notCollect

\* The file-listing call of the attempt: not made, made and its result
\* stored, or the category of the error that fetch_pr_files caught.
TransportSeen(done, outcome) ==
    IF ~done.fetched THEN "none"
    ELSE IF outcome.error = NoError THEN "ok"
    ELSE categorize_error(outcome.error)

\* The outcomes of the file-listing call for a PR.
FileOutcomes(number) ==
    {FilesOk(FilesOf(number)), FilesUnstored(FilesOf(number))}
        \cup {FilesError(e) : e \in FileFetchErrors}

\* Lines 376-399: an attempt whose cache reads succeed: fetch_pr_files
\* returns, the PR is populated and counted.
MetricsFetch(i) ==
    /\ collectPc = "enrich"
    /\ i \in 1..Len(metrics)
    /\ metrics[i].st = "running"
    /\ Len(RepoParts(pull_requests[i].repository)) = 2
    /\ \E outcome \in FileOutcomes(pull_requests[i].number) :
         LET number == pull_requests[i].number
             is_cached == fileCache[number].kind /= "absent"
             done == fetch_pr_files(fileCache[number], outcome)
         IN  /\ fileCache' = CacheAfter(fileCache, number, done)
             /\ pull_requests' = [pull_requests EXCEPT
                    ![i].additions = Some(done.result.additions),
                    ![i].deletions = Some(done.result.deletions),
                    ![i].changed_files = Some(done.result.changed_files)]
             /\ stats' = IF is_cached
                         THEN [stats EXCEPT !.file_fetch_cached = @ + 1]
                         ELSE [stats EXCEPT !.file_fetch_success = @ + 1]
             /\ metrics' = [metrics EXCEPT
                    ![i] = DoneTask(TransportSeen(done, outcome))]
    /\ UNCHANGED <<collectArgs, collectPc, searchItems, searchError,
                   starTasks, collectReturned>>
    /\ UNCHANGED notCollect

\* Lines 425-479: the gather of the enrichment tasks returns; the star
\* collection starts if it is wanted, else the list is returned.
MetricsGather ==
    /\ collectPc = "enrich"
    /\ \A i \in 1..Len(metrics) : metrics[i].st = "done"
    /\ IF StarsWanted(collectArgs) /\ Repositories(pull_requests) /= {}
       THEN /\ collectPc' = "stars"
            /\ starTasks' =
                   [r \in RepoNames |->
                       IF r \in Repositories(pull_requests)
                       THEN [NoStarTask EXCEPT !.st = "waiting"]
                       ELSE NoStarTask]
            /\ UNCHANGED collectReturned
       ELSE /\ CollectReturn(pull_requests)
            /\ UNCHANGED starTasks
    /\ UNCHANGED <<collectArgs, searchItems, searchError, pull_requests,
                   stats, metrics, fileCache>>
    /\ UNCHANGED notCollect

StarsRunning == {r \in RepoNames : starTasks[r].st = "running"}

\* stargazers.py 207-209: the task enters the semaphore and calls
\* fetch_repository_star_increase.
StarTaskAcquire(r) ==
    /\ collectPc = "stars"
    /\ starTasks[r].st = "waiting"
    /\ Len(RepoParts(r)) = 2
    /\ Cardinality(StarsRunning) < max_concurrent
    /\ starTasks' = [starTasks EXCEPT ![r].st = "running",
                                      ![r].fetches = @ + 1]
    /\ UNCHANGED <<collectArgs, collectPc, searchItems, searchError,
                   pull_requests, stats, metrics, collectReturned,
                   fileCache>>
    /\ UNCHANGED notCollect

StarReturns(result) == [ok |-> TRUE, result |-> result, error |-> NoError]
StarRaised(e) == [ok |-> FALSE, result |-> None, error |-> e]

\* The task with the exception of the fetch left uncaught.
fetch_with_semaphore_uncaught(outcome) ==
    [result |-> outcome.result, raised |-> ~outcome.ok,
     error |-> outcome.error]

\* stargazers.py 208-220: the result of the task from the outcome of
\* fetch_repository_star_increase.
fetch_with_semaphore(outcome) ==
    IF outcome.ok
    THEN [result |-> outcome.result, raised |-> FALSE, error |-> NoError]
    ELSE [result |-> None, raised |-> FALSE, error |-> NoError]

StarTaskEnds(r, outcome) ==
    LET task == fetch_with_semaphore(outcome)
    IN  [starTasks EXCEPT ![r].st = "done", ![r].result = task.result,
                          ![r].raised = task.raised,
                          ![r].error = task.error,
                          ![r].failed = ~outcome.ok]

\* stargazers.py 209-217: the fetch returns a count, -1 or None.
StarTaskReturns(r) ==
    /\ collectPc = "stars"
    /\ starTasks[r].st = "running"
    /\ \E result \in StarResults :
           starTasks' = StarTaskEnds(r, StarReturns(result))
    /\ UNCHANGED <<collectArgs, collectPc, searchItems, searchError,
                   pull_requests, stats, metrics, collectReturned,
                   fileCache>>
    /\ UNCHANGED notCollect

\* stargazers.py 218-220: the fetch raises.
StarTaskFails(r) ==
    /\ collectPc = "stars"
    /\ starTasks[r].st = "running"
    /\ \E e \in StarRaises : starTasks' = StarTaskEnds(r, StarRaised(e))
    /\ UNCHANGED <<collectArgs, collectPc, searchItems, searchError,
                   pull_requests, stats, metrics, collectReturned,
                   fileCache>>
    /\ UNCHANGED notCollect

\* The result given only to the first PR of each repository.
PopulateStars_first_only(prs, tasks) ==
    [i \in 1..Len(prs) |->
        IF \E j \in 1..(i - 1) : prs[j].repository = prs[i].repository
        THEN prs[i]
        ELSE [prs[i] EXCEPT
                 !.star_increase = tasks[prs[i].repository].result]]

\* star_increases.get(pr.repository) for every PR.
PopulateStars(prs, tasks) ==
    [i \in 1..Len(prs) |->
        [prs[i] EXCEPT !.star_increase = tasks[prs[i].repository].result]]

\* stargazers.py 226-237, pullrequests.py 468-497: the gather of the star
\* tasks returns or raises what a task raised.
StarGather ==
    /\ collectPc = "stars"
    /\ \A r \in RepoNames : starTasks[r].st \in {"off", "done"}
    /\ IF \E r \in RepoNames : starTasks[r].raised
       THEN /\ \E r \in RepoNames :
                  /\ starTasks[r].raised
                  /\ collectReturned' = CollectHandle(starTasks[r].error)
            /\ collectPc' = "done"
            /\ UNCHANGED pull_requests
       ELSE /\ pull_requests' = PopulateStars(pull_requests, starTasks)
            /\ CollectReturn(pull_requests')
    /\ UNCHANGED <<collectArgs, searchItems, searchError, stats, metrics,
                   starTasks, fileCache>>
    /\ UNCHANGED notCollect

CollectNext ==
    \/ CollectSearchReturns
    \/ CollectSearchFails
    \/ \E i \in PrNumbers : MetricsAcquire(i)
    \/ \E i \in PrNumbers : MetricsCacheFails(i)
    \/ \E i \in PrNumbers : MetricsFetch(i)
    \/ MetricsGather
    \/ \E r \in RepoNames : StarTaskAcquire(r)
    \/ \E r \in RepoNames : StarTaskReturns(r)
    \/ \E r \in RepoNames : StarTaskFails(r)
    \/ StarGather

-----------------------------------------------------------------------------
(* collect_repository_star_increases (stargazers.py), called on its own     *)
(* with a list of repository names that may repeat a name and may hold a    *)
(* name that is not of the form owner/repo.                                 *)

\* Bound: the length of the list of repository names.
MaxRepositories == 3

BatchNames == Repos \cup {"widget"}

\* Bound: the largest max_concurrent a caller passes besides the default.
MaxBatchLimit == 2

\* Line 169: max_concurrent: int = 10, or what the caller passes.
BatchLimits == (1..MaxBatchLimit) \cup {max_concurrent}

RepositoryLists == UNION { [1..n -> BatchNames] : n \in 0..MaxRepositories }

\* A name check that accepts every name.
NameValid_always(repo_full_name) == TRUE

\* Lines 201-202: parts = repo_full_name.split("/", 1); len(parts) == 2
NameValid(repo_full_name) == Len(RepoParts(repo_full_name)) = 2

RECURSIVE UniqueRepos(_, _, _)
\* Lines 184-190: the names from index i on that are not in `seen`, in order.
UniqueRepos(repositories, i, seen) ==
    IF i > Len(repositories) THEN <<>>
    ELSE IF repositories[i] \in seen
    THEN UniqueRepos(repositories, i + 1, seen)
    ELSE <<repositories[i]>>
             \o UniqueRepos(repositories, i + 1, seen \cup {repositories[i]})

\* A fetch_with_semaphore task: its name, its state, what it returned, how
\* often it called fetch_repository_star_increase and whether that raised.
BatchTask(repo) ==
    [repo |-> repo, st |-> "waiting", result |-> None, raised |-> FALSE,
     error |-> NoError, failed |-> FALSE, fetches |-> 0]

\* Lines 229-231: the dictionary built from the results, as the set of its
\* (name, value) items; a later result for a name replaces an earlier one.
StarIncreases(tasks) ==
    { <<tasks[i].repo, tasks[i].result>> : i \in
          { k \in 1..Len(tasks) :
                \A j \in (k + 1)..Len(tasks) : tasks[j].repo /= tasks[k].repo } }

BatchIdle ==
    /\ batchRepositories = <<>>
    /\ batchLimit = max_concurrent
    /\ batchTasks = <<>>
    /\ batchPc = "off"
    /\ star_increases = {}

\* Lines 184-223: the call, up to the creation of the tasks.
BatchInit ==
    /\ batchRepositories \in RepositoryLists
    /\ batchLimit \in BatchLimits
    /\ batchTasks = [i \in 1..Len(UniqueRepos(batchRepositories, 1, {})) |->
                        BatchTask(UniqueRepos(batchRepositories, 1, {})[i])]
    /\ batchPc = "gathering"
    /\ star_increases = {}

BatchRunning == {i \in 1..Len(batchTasks) : batchTasks[i].st = "running"}

TaskNumbers == 1..MaxRepositories

\* Lines 201-204: a name not of the form owner/repo gives None, no fetch.
BatchTaskBadName(i) ==
    /\ batchPc = "gathering"
    /\ i \in 1..Len(batchTasks)
    /\ batchTasks[i].st = "waiting"
    /\ ~NameValid(batchTasks[i].repo)
    /\ batchTasks' = [batchTasks EXCEPT ![i].st = "done"]
    /\ UNCHANGED <<batchRepositories, batchLimit, batchPc, star_increases>>
    /\ UNCHANGED notBatch

\* Lines 207-209: the task enters the semaphore and calls
\* fetch_repository_star_increase.
BatchTaskAcquire(i) ==
    /\ batchPc = "gathering"
    /\ i \in 1..Len(batchTasks)
    /\ batchTasks[i].st = "waiting"
    /\ NameValid(batchTasks[i].repo)
    /\ Cardinality(BatchRunning) < batchLimit
    /\ batchTasks' = [batchTasks EXCEPT ![i].st = "running",
                                        ![i].fetches = @ + 1]
    /\ UNCHANGED <<batchRepositories, batchLimit, batchPc, star_increases>>
    /\ UNCHANGED notBatch

BatchTaskEnds(i, outcome) ==
    LET task == fetch_with_semaphore(outcome)
    IN  [batchTasks EXCEPT ![i].st = "done", ![i].result = task.result,
                           ![i].raised = task.raised,
                           ![i].error = task.error,
                           ![i].failed = ~outcome.ok]

\* Lines 209-217: the fetch returns a count or None.
BatchTaskReturns(i) ==
    /\ batchPc = "gathering"
    /\ i \in 1..Len(batchTasks)
    /\ batchTasks[i].st = "running"
    /\ \E result \in StarResults :
           batchTasks' = BatchTaskEnds(i, StarReturns(result))
    /\ UNCHANGED <<batchRepositories, batchLimit, batchPc, star_increases>>
    /\ UNCHANGED notBatch

\* Lines 218-220: the fetch raises.
BatchTaskFails(i) ==
    /\ batchPc = "gathering"
    /\ i \in 1..Len(batchTasks)
    /\ batchTasks[i].st = "running"
    /\ \E e \in StarRaises : batchTasks' = BatchTaskEnds(i, StarRaised(e))
    /\ UNCHANGED <<batchRepositories, batchLimit, batchPc, star_increases>>
    /\ UNCHANGED notBatch

\* Lines 226-237: the gather returns and the dictionary is returned, or the
\* gather raises what a task raised.
BatchGather ==
    /\ batchPc = "gathering"
    /\ \A i \in 1..Len(batchTasks) : batchTasks[i].st = "done"
    /\ IF \E i \in 1..Len(batchTasks) : batchTasks[i].raised
       THEN /\ batchPc' = "raised"
            /\ UNCHANGED star_increases
       ELSE /\ batchPc' = "returned"
            /\ star_increases' = StarIncreases(batchTasks)
    /\ UNCHANGED <<batchRepositories, batchLimit, batchTasks>>
    /\ UNCHANGED notBatch

BatchNext ==
    \/ \E i \in TaskNumbers : BatchTaskBadName(i)
    \/ \E i \in TaskNumbers : BatchTaskAcquire(i)
    \/ \E i \in TaskNumbers : BatchTaskReturns(i)
    \/ \E i \in TaskNumbers : BatchTaskFails(i)
    \/ BatchGather

-----------------------------------------------------------------------------
(* GitHubAPIClient._request_with_retry (client.py).  One call and its       *)
(* recursive calls: every call sends the request once.  A response that     *)
(* fails carries the two rate-limit headers, each absent or a text.         *)

\* Bound: the largest max_retries a caller passes.
MaxRetryLimit == 4

\* Line 48: max_retries: int = 3
DefaultMaxRetries == 3

\* Line 101: the cap on the wait for a rate-limit reset.
MaxResetWait == 60

RetryLimits == (0..MaxRetryLimit) \cup {DefaultMaxRetries}

\* A header text: decimal digits with their value, the empty text, or a
\* text that is not a number.
Digits(n) == [text |-> "digits", int |-> n]
EmptyText == [text |-> "empty", int |-> 0]
WordText == [text |-> "word", int |-> 0]

\* What int(time.time()) reads, and the epochs a reset header names: before
\* now, now, and up to an hour after it.
Clock == {1000}
ResetEpochs == {970, 1000, 1001, 1040, 1060, 1061, 4600}

RemainingHeaders == {None, Some(Digits(0)), Some(Digits(42))}
ResetHeaders == {None, Some(EmptyText), Some(WordText)}
                    \cup {Some(Digits(n)) : n \in ResetEpochs}

RequestStatuses == {401, 403, 404, 422, 429, 500, 502, 503, 504}

\* Exceptions of the request that are not httpx.TimeoutException and not
\* httpx.HTTPStatusError.
TransportErrors == {OtherError("ConnectError"), OtherError("NetworkError")}

\* The outcome of one attempt.
Response(ok, e, remaining, reset) ==
    [ok |-> ok, error |-> e, remaining |-> remaining, reset |-> reset]
NoOutcome == Response(FALSE, NoError, None, None)
OkResponse == Response(TRUE, NoError, None, None)

\* Python's truth value of a text, and int(text) (None: ValueError).
TruthyText(text) == text.text /= "empty"
ParseInt(text) == IF text.text = "digits" THEN Some(text.int) ELSE None

\* A retry test that allows one retry more.
CanRetry_inclusive(count, limit) == count <= limit

\* Lines 78 and 92: retry_count < max_retries
CanRetry(count, limit) == count < limit

\* A rate-limit test that takes every 403 and 429 for a rate limit.
IsRateLimit_ignoring_remaining(status, remaining) == TRUE

\* Lines 94-95: remaining = headers.get("X-RateLimit-Remaining", "");
\* is_rate_limit = status_code == 429 or remaining == "0"
IsRateLimit(status, remaining) ==
    status = 429 \/ remaining = Some(Digits(0))

\* Line 98: if reset_time (a header that is present and not empty).
HasResetTime(reset_time) ==
    ~IsNone(reset_time) /\ TruthyText(Get(reset_time))

\* A wait that is capped but not floored.
WaitTime_unfloored(reset_time, clock, count) ==
    IF HasResetTime(reset_time)
    THEN Min(Get(ParseInt(Get(reset_time))) - clock, MaxResetWait)
    ELSE 2 ^ count

\* Lines 98-104: min(int(reset_time) - int(time.time()), 60), then
\* max(wait_time, 1); without a reset time 2**retry_count.
WaitTime(reset_time, clock, count) ==
    IF HasResetTime(reset_time)
    THEN Max(Min(Get(ParseInt(Get(reset_time))) - clock, MaxResetWait), 1)
    ELSE 2 ^ count

RequestIdle ==
    /\ requestArgs = [max_retries |-> 0, client |-> FALSE]
    /\ requestPc = "off"
    /\ retry_count = 0
    /\ requests = 0
    /\ wait_time = 0
    /\ sleeps = 0
    /\ now = 0
    /\ lastOutcome = NoOutcome
    /\ requestError = NoError

\* Lines 44-51: the call by one of the client's methods, retry_count = 0.
RequestInit ==
    /\ requestArgs \in [max_retries : RetryLimits, client : BOOLEAN]
    /\ requestPc = "calling"
    /\ retry_count = 0
    /\ requests = 0
    /\ wait_time = 0
    /\ sleeps = 0
    /\ now = 0
    /\ lastOutcome = NoOutcome
    /\ requestError = NoError

\* The call raises e.
RequestRaise(outcome, e) ==
    /\ requestPc' = "raised"
    /\ requestError' = e
    /\ lastOutcome' = outcome
    /\ UNCHANGED <<retry_count, wait_time, sleeps>>

\* asyncio.sleep(wait) and the recursive call with retry_count + 1.
RequestRetry(outcome, wait) ==
    /\ requestPc' = "calling"
    /\ wait_time' = wait
    /\ sleeps' = sleeps + 1
    /\ retry_count' = retry_count + 1
    /\ lastOutcome' = outcome
    /\ UNCHANGED requestError

\* Lines 68-69: no client, RuntimeError before any request.
RequestNoClient ==
    /\ requestPc = "calling"
    /\ ~requestArgs.client
    /\ RequestRaise(lastOutcome, OtherError("RuntimeError"))
    /\ UNCHANGED <<requestArgs, requests, now>>
    /\ UNCHANGED notRequest

\* Lines 71-74: the request is sent and the response has no error status.
RequestSucceeds ==
    /\ requestPc = "calling"
    /\ requestArgs.client
    /\ requests' = requests + 1
    /\ requestPc' = "returned"
    /\ lastOutcome' = OkResponse
    /\ UNCHANGED <<requestArgs, retry_count, wait_time, sleeps, now,
                   requestError>>
    /\ UNCHANGED notRequest

\* Lines 76-88: httpx.TimeoutException.
RequestTimesOut ==
    /\ requestPc = "calling"
    /\ requestArgs.client
    /\ requests' = requests + 1
    /\ LET outcome == Response(FALSE, OtherError("TimeoutException"),
                               None, None)
       IN  IF CanRetry(retry_count, requestArgs.max_retries)
           THEN RequestRetry(outcome, 2 ^ retry_count)
           ELSE RequestRaise(outcome, outcome.error)
    /\ UNCHANGED <<requestArgs, now>>
    /\ UNCHANGED notRequest

\* Lines 90-113: httpx.HTTPStatusError.
RequestStatusError ==
    /\ requestPc = "calling"
    /\ requestArgs.client
    /\ requests' = requests + 1
    /\ \E status \in RequestStatuses, remaining \in RemainingHeaders,
          reset_time \in ResetHeaders, clock \in Clock :
           LET outcome == Response(FALSE, HTTPStatusError(status),
                                   remaining, reset_time)
           IN  IF /\ status \in {403, 429}
                  /\ CanRetry(retry_count, requestArgs.max_retries)
                  /\ IsRateLimit(status, remaining)
               THEN IF /\ HasResetTime(reset_time)
                       /\ IsNone(ParseInt(Get(reset_time)))
                    THEN \* int(reset_time) raises ValueError
                         /\ RequestRaise(outcome, OtherError("ValueError"))
                         /\ UNCHANGED now
                    ELSE /\ RequestRetry(outcome,
                                WaitTime(reset_time, clock, retry_count))
                         /\ now' = IF HasResetTime(reset_time)
                                   THEN clock ELSE now
               ELSE /\ RequestRaise(outcome, outcome.error)
                    /\ UNCHANGED now
    /\ UNCHANGED requestArgs
    /\ UNCHANGED notRequest

\* An exception of the request that no handler catches.
RequestTransportError ==
    /\ requestPc = "calling"
    /\ requestArgs.client
    /\ requests' = requests + 1
    /\ \E e \in TransportErrors :
           RequestRaise(Response(FALSE, e, None, None), e)
    /\ UNCHANGED <<requestArgs, now>>
    /\ UNCHANGED notRequest

RequestNext ==
    \/ RequestNoClient
    \/ RequestSucceeds
    \/ RequestTimesOut
    \/ RequestStatusError
    \/ RequestTransportError

-----------------------------------------------------------------------------
(* GitHubAPIClient.execute_graphql (client.py): one call of                 *)
(* _request_with_retry with the default max_retries, then the check of the  *)
(* response body.  A text is the sequence of its pieces.                    *)

\* Bound: the length of the errors array of a response body.
MaxErrors == 2

\* An entry of the errors array: an object with or without a "message".
ErrorEntries ==
    { [has_message |-> TRUE, message |-> "Field 'invalid' doesn't exist",
       str |-> "{'message': ...}"],
      [has_message |-> TRUE, message |-> "Another error",
       str |-> "{'message': ...}"],
      [has_message |-> FALSE, message |-> "",
       str |-> "{'type': 'FORBIDDEN'}"] }

ErrorArrays == UNION { [1..n -> ErrorEntries] : n \in 0..MaxErrors }

\* The decoded JSON body: whether it has the key "errors", and the array.
Body(has_errors, errors) == [has_errors |-> has_errors, errors |-> errors]
Bodies == {Body(FALSE, <<>>)} \cup {Body(TRUE, errors) : errors \in ErrorArrays}
NoBody == Body(FALSE, <<>>)

RECURSIVE Join(_, _)
\* Python's sep.join(texts).
Join(sep, texts) ==
    IF Len(texts) = 0 THEN <<>>
    ELSE IF Len(texts) = 1 THEN <<texts[1]>>
    ELSE <<texts[1], sep>> \o Join(sep, Tail(texts))

\* Line 399: error.get("message", str(error)) for each entry.
ErrorMessages(errors) ==
    [i \in 1..Len(errors) |->
        IF errors[i].has_message THEN errors[i].message ELSE errors[i].str]

\* Line 400: ValueError(f"GraphQL errors: {'; '.join(error_messages)}")
GraphQLErrors(errors) ==
    [class |-> "ValueError", status |-> 0,
     text |-> <<"GraphQL errors: ">> \o Join("; ", ErrorMessages(errors))]

\* An exception of _request_with_retry, passed on unchanged.
Propagated(e) == [class |-> e.class, status |-> e.status, text |-> <<>>]

\* A check that never finds the key.
HasErrors_never(result) == FALSE

\* Line 398: "errors" in result
HasErrors(result) == result.has_errors

GraphqlIdle ==
    /\ graphqlPc = "off"
    /\ graphqlBody = NoBody
    /\ graphqlResult = None
    /\ graphqlError = Propagated(NoError)

\* Lines 390-394: the payload is built and _request_with_retry is called.
GraphqlInit ==
    /\ graphqlPc = "posting"
    /\ graphqlBody = NoBody
    /\ graphqlResult = None
    /\ graphqlError = Propagated(NoError)

\* Line 394: _request_with_retry raises; execute_graphql has no handler.
GraphqlRequestRaises ==
    /\ graphqlPc = "posting"
    /\ requestPc = "raised"
    /\ graphqlPc' = "raised"
    /\ graphqlError' = Propagated(requestError)
    /\ UNCHANGED <<graphqlBody, graphqlResult>>
    /\ UNCHANGED notGraphql

\* Lines 395-402: the body has no "errors" key and is returned.
GraphqlReturns ==
    /\ graphqlPc = "posting"
    /\ requestPc = "returned"
    /\ \E result \in Bodies :
           /\ ~HasErrors(result)
           /\ graphqlBody' = result
           /\ graphqlResult' = Some(result)
    /\ graphqlPc' = "returned"
    /\ UNCHANGED graphqlError
    /\ UNCHANGED notGraphql

\* Lines 395-400: the body has an "errors" key; ValueError is raised.
GraphqlErrors ==
    /\ graphqlPc = "posting"
    /\ requestPc = "returned"
    /\ \E result \in Bodies :
           /\ HasErrors(result)
           /\ graphqlBody' = result
           /\ graphqlError' = GraphQLErrors(result.errors)
    /\ graphqlPc' = "raised"
    /\ UNCHANGED graphqlResult
    /\ UNCHANGED notGraphql

GraphqlNext ==
    \/ RequestNoClient
    \/ RequestSucceeds
    \/ RequestTimesOut
    \/ RequestStatusError
    \/ RequestTransportError
    \/ GraphqlRequestRaises
    \/ GraphqlReturns
    \/ GraphqlErrors

-----------------------------------------------------------------------------
(* The enrichment phase of collect_user_prs over a cache that may already   *)
(* hold an entry for the first PR: a usable tuple, a tuple with a negative  *)
(* number, or something that is not a tuple.                                *)

EnrichInit ==
    /\ CollectInit
    /\ ~collectArgs.include_star_increase /\ ~collectArgs.since
    /\ ~collectArgs.until
    /\ \E entry \in InitialEntries :
           fileCache = [n \in PrNumbers |-> IF n = 1 THEN entry ELSE Absent]
    /\ filesReturned = NoFilesReturn

EnrichNext ==
    \/ CollectSearchReturns
    \/ \E i \in PrNumbers : MetricsAcquire(i)
    \/ \E i \in PrNumbers : MetricsCacheFails(i)
    \/ \E i \in PrNumbers : MetricsFetch(i)
    \/ MetricsGather

-----------------------------------------------------------------------------
(* The parse loop of collect_user_prs (pullrequests.py 279-343) over raw    *)
(* search items, and PullRequestInfo.get_display_state (models.py).  A raw  *)
(* item says, field by field, what the JSON object holds.                   *)

\* Bound: the length of the search result that is parsed.
MaxRawItems == 3

\* GitHub's two raw states.
RawStates == {"open", "closed"}

\* A well-formed PR item with the given state and merged_at.
BaseItem(state, merged_at) ==
    [pull_request |-> "object",     \* "absent", "null" or "object"
     merged_at |-> merged_at,       \* "none", "ok" or "invalid"
     repository_url |-> "ok",       \* "ok" or "absent"
     html_url |-> "ok",             \* "ok", "short" or "missing"
     created_at |-> "ok",           \* "ok", "invalid", "null" or "missing"
     closed_at |-> IF state = "closed" THEN "ok" ELSE "none",
     number |-> "ok",               \* "ok" or "missing"
     title |-> "ok",
     user |-> "ok",                 \* "ok", "null" or "missing"
     state |-> state]               \* a raw state or "missing"

\* The items that differ from a well-formed one in at most one field.
Variants(item) ==
    { item,
      [item EXCEPT !.pull_request = "absent"],
      [item EXCEPT !.pull_request = "null"],
      [item EXCEPT !.repository_url = "absent"],
      [item EXCEPT !.repository_url = "absent", !.html_url = "short"],
      [item EXCEPT !.html_url = "missing"],
      [item EXCEPT !.created_at = "missing"],
      [item EXCEPT !.created_at = "invalid"],
      [item EXCEPT !.created_at = "null"],
      [item EXCEPT !.closed_at = "invalid"],
      [item EXCEPT !.merged_at = "invalid"],
      [item EXCEPT !.number = "missing"],
      [item EXCEPT !.title = "missing"],
      [item EXCEPT !.user = "missing"],
      [item EXCEPT !.user = "null"],
      [item EXCEPT !.state = "missing"] }

\* The well-formed items of every state, merged or not, and the variants of
\* one of them.
RawItems ==
    {BaseItem(state, merged_at) :
         state \in RawStates, merged_at \in {"none", "ok"}}
        \cup Variants(BaseItem("closed", "ok"))

RawItemLists == UNION { [1..n -> RawItems] : n \in 0..MaxRawItems }

\* A handler for KeyError only.
ParseCaught_KeyError_only == {"KeyError"}

\* The exception classes that the loop catches (line 341).
ParseCaught == {"KeyError", "ValueError", "IndexError"}

\* Lines 281-339 for one item: "skip" (not a PR), "pr", or the class of the
\* exception that the statements raise, in the order of the statements.
ParseOutcome(item) ==
    IF item.pull_request \in {"absent", "null"} THEN "skip"
    ELSE IF item.repository_url = "absent" /\ item.html_url /= "ok"
    THEN "IndexError"
    ELSE IF item.created_at = "missing" THEN "KeyError"
    ELSE IF item.created_at = "null" THEN "AttributeError"
    ELSE IF item.created_at = "invalid" THEN "ValueError"
    ELSE IF item.closed_at = "invalid" THEN "ValueError"
    ELSE IF item.merged_at = "invalid" THEN "ValueError"
    ELSE IF item.number = "missing" THEN "KeyError"
    ELSE IF item.title = "missing" THEN "KeyError"
    ELSE IF item.user = "missing" THEN "KeyError"
    ELSE IF item.user = "null" THEN "TypeError"
    ELSE IF item.state = "missing" THEN "KeyError"
    ELSE IF item.html_url = "missing" THEN "KeyError"
    ELSE "pr"

\* A constructor that records every PR as open.
ParsedPullRequest_open(item, position) ==
    [position |-> position, state |-> "open",
     merged_at |-> item.merged_at = "ok",
     closed_at |-> item.closed_at = "ok"]

\* Lines 325-337: the PullRequestInfo of an item that parses; `position` is
\* the item's place in the search result, merged_at and closed_at say
\* whether the timestamp is set.
ParsedPullRequest(item, position) ==
    [position |-> position, state |-> item.state,
     merged_at |-> item.merged_at = "ok",
     closed_at |-> item.closed_at = "ok"]

\* A display state that ignores the raw state.
get_display_state_merged_at_only(pr) ==
    IF pr.merged_at THEN "merged" ELSE pr.state

\* models.py 37-39.
get_display_state(pr) ==
    IF pr.state = "closed" /\ pr.merged_at THEN "merged" ELSE pr.state

ParseIdle ==
    /\ rawItems = <<>>
    /\ parseIndex = 0
    /\ parsed = <<>>
    /\ parsePc = "off"
    /\ parseError = "none"
    /\ display_states = <<>>

\* Lines 276-279: the search has returned; pull_requests = [].
ParseInit ==
    /\ rawItems \in RawItemLists
    /\ parseIndex = 1
    /\ parsed = <<>>
    /\ parsePc = "parsing"
    /\ parseError = "none"
    /\ display_states = <<>>

ParseStep(outcomes) ==
    /\ parsePc = "parsing"
    /\ parseIndex <= Len(rawItems)
    /\ ParseOutcome(rawItems[parseIndex]) \in outcomes

\* Lines 283-285: the item is not a PR; continue.
ParseSkipsIssue ==
    /\ ParseStep({"skip"})
    /\ parseIndex' = parseIndex + 1
    /\ UNCHANGED <<rawItems, parsed, parsePc, parseError, display_states>>
    /\ UNCHANGED notParse

\* Lines 325-339: the PullRequestInfo is built and appended.
ParseAppends ==
    /\ ParseStep({"pr"})
    /\ parsed' = Append(parsed,
                        ParsedPullRequest(rawItems[parseIndex], parseIndex))
    /\ parseIndex' = parseIndex + 1
    /\ UNCHANGED <<rawItems, parsePc, parseError, display_states>>
    /\ UNCHANGED notParse

\* Lines 341-343: KeyError, ValueError or IndexError; warning, continue.
ParseSkipsMalformed ==
    /\ ParseStep(ParseCaught)
    /\ parseIndex' = parseIndex + 1
    /\ UNCHANGED <<rawItems, parsed, parsePc, parseError, display_states>>
    /\ UNCHANGED notParse

\* Lines 495-497: any other exception leaves the loop and collect_user_prs.
ParseRaises ==
    /\ parsePc = "parsing"
    /\ parseIndex <= Len(rawItems)
    /\ ParseOutcome(rawItems[parseIndex]) \notin ParseCaught \cup {"skip", "pr"}
    /\ parsePc' = "raised"
    /\ parseError' = ParseOutcome(rawItems[parseIndex])
    /\ UNCHANGED <<rawItems, parseIndex, parsed, display_states>>
    /\ UNCHANGED notParse

\* Line 345: the loop is over.
ParseEnds ==
    /\ parsePc = "parsing"
    /\ parseIndex > Len(rawItems)
    /\ parsePc' = "parsed"
    /\ UNCHANGED <<rawItems, parseIndex, parsed, parseError, display_states>>
    /\ UNCHANGED notParse

\* get_display_state called on every PR of the list (reports.py 218-220).
DisplayStates ==
    /\ parsePc = "parsed"
    /\ parsePc' = "displayed"
    /\ display_states' = [i \in 1..Len(parsed) |-> get_display_state(parsed[i])]
    /\ UNCHANGED <<rawItems, parseIndex, parsed, parseError>>
    /\ UNCHANGED notParse

ParseNext ==
    \/ ParseSkipsIssue
    \/ ParseAppends
    \/ ParseSkipsMalformed
    \/ ParseRaises
    \/ ParseEnds
    \/ DisplayStates

-----------------------------------------------------------------------------
(* schedule_report_generation and generate_report_background              *)
(* (background_tasks.py) over the task keys of task_tracking.py.  The calls *)
(* are coroutines of concurrent web requests: a call runs from one await   *)
(* of a cache operation to the next, and the calls interleave at the       *)
(* awaits.  The cache is a key-value store whose get, set and delete are   *)
(* each atomic.                                                            *)

\* Bound: the number of concurrent calls of schedule_report_generation.
MaxCalls == 2

\* conf/settings.py: the default of max_reported_user_concurrent_tasks.
max_reported_user_concurrent_tasks == 1

Calls == 1..MaxCalls
Usernames == {"alice", "bob"}
Periods == {"1_year", "2_years"}

\* task_id = f"{username}:{period}:{params_hash}", one params_hash.
TaskIds == [username : Usernames, period : Periods]

\* background_tasks.py 66-68 and task_tracking.py 26-29: is_task_active.
generateVars == <<callOutcome, cacheFailed, reportCache>>

IsTaskActive(c) ==
    /\ callPc[c] = "is_task_active"
    /\ IF taskKeys[callArgs[c]]
       THEN /\ callPc' = [callPc EXCEPT ![c] = "returned"]
            /\ callResult' = [callResult EXCEPT ![c] = Some(FALSE)]
       ELSE /\ callPc' = [callPc EXCEPT ![c] = "can_start"]
            /\ UNCHANGED callResult
    /\ UNCHANGED <<callArgs, callLocal, taskKeys, userTasks>>
    /\ UNCHANGED generateVars
    /\ UNCHANGED notTasks

\* background_tasks.py 71-73 and task_tracking.py 187-197:
\* can_start_reported_user_task reads the user's list of active tasks.
CanStartReportedUserTask(c) ==
    /\ callPc[c] = "can_start"
    /\ LET active_tasks == userTasks[callArgs[c].username]
           can_start == Cardinality(active_tasks)
                            < max_reported_user_concurrent_tasks
       IN  IF can_start
           THEN /\ callPc' = [callPc EXCEPT ![c] = "start_get"]
                /\ UNCHANGED callResult
           ELSE /\ callPc' = [callPc EXCEPT ![c] = "returned"]
                /\ callResult' = [callResult EXCEPT ![c] = Some(FALSE)]
    /\ UNCHANGED <<callArgs, callLocal, taskKeys, userTasks>>
    /\ UNCHANGED generateVars
    /\ UNCHANGED notTasks

\* task_tracking.py 56-58: start_task reads the task key; if it exists
\* start_task and schedule_report_generation return False.
StartTaskGet(c) ==
    /\ callPc[c] = "start_get"
    /\ IF taskKeys[callArgs[c]]
       THEN /\ callPc' = [callPc EXCEPT ![c] = "returned"]
            /\ callResult' = [callResult EXCEPT ![c] = Some(FALSE)]
       ELSE /\ callPc' = [callPc EXCEPT ![c] = "start_set"]
            /\ UNCHANGED callResult
    /\ UNCHANGED <<callArgs, callLocal, taskKeys, userTasks>>
    /\ UNCHANGED generateVars
    /\ UNCHANGED notTasks

\* task_tracking.py 61-64: the task key is set.
StartTaskSet(c) ==
    /\ callPc[c] = "start_set"
    /\ taskKeys' = [taskKeys EXCEPT ![callArgs[c]] = TRUE]
    /\ callPc' = [callPc EXCEPT ![c] = "user_get"]
    /\ UNCHANGED <<callArgs, callLocal, callResult, userTasks>>
    /\ UNCHANGED generateVars
    /\ UNCHANGED notTasks

\* task_tracking.py 67-78: the user's list is read.
StartTaskUserGet(c) ==
    /\ callPc[c] = "user_get"
    /\ callLocal' = [callLocal EXCEPT ![c] = userTasks[callArgs[c].username]]
    /\ callPc' = [callPc EXCEPT ![c] = "user_set"]
    /\ UNCHANGED <<callArgs, callResult, taskKeys, userTasks>>
    /\ UNCHANGED generateVars
    /\ UNCHANGED notTasks

\* task_tracking.py 80-88 and background_tasks.py 83-98: the task is added
\* to the list that was read and the list is written; start_task returns
\* True, the background task is added, schedule_report_generation returns
\* True.
StartTaskUserSet(c) ==
    /\ callPc[c] = "user_set"
    /\ userTasks' =
           IF callArgs[c] \in callLocal[c] THEN userTasks
           ELSE [userTasks EXCEPT ![callArgs[c].username] =
                    callLocal[c] \cup {callArgs[c]}]
    /\ callPc' = [callPc EXCEPT ![c] = "generating"]
    /\ callResult' = [callResult EXCEPT ![c] = Some(TRUE)]
    /\ callLocal' = [callLocal EXCEPT ![c] = {}]
    /\ UNCHANGED <<callArgs, taskKeys>>
    /\ UNCHANGED generateVars
    /\ UNCHANGED notTasks

\* background_tasks.py 171-173: the finally clause runs complete_task after
\* every outcome of the try block.
Finally_success_only(outcome) ==
    IF outcome = "succeeded" THEN "completing" ELSE "completed"

Finally(outcome) == "completing"

\* background_tasks.py 124-135: without a token there is no client and the
\* function returns early.
GenerateNoToken(c) ==
    /\ callPc[c] = "generating"
    /\ callOutcome' = [callOutcome EXCEPT ![c] = "skipped"]
    /\ callPc' = [callPc EXCEPT ![c] = Finally("skipped")]
    /\ UNCHANGED <<callArgs, callLocal, callResult, taskKeys, userTasks,
                   cacheFailed, reportCache>>
    /\ UNCHANGED notTasks

\* background_tasks.py 137-145 and 167-169: generate_report_data raises; the
\* exception is logged and not raised again.
GenerateFails(c) ==
    /\ callPc[c] = "generating"
    /\ callOutcome' = [callOutcome EXCEPT ![c] = "failed"]
    /\ callPc' = [callPc EXCEPT ![c] = Finally("failed")]
    /\ UNCHANGED <<callArgs, callLocal, callResult, taskKeys, userTasks,
                   cacheFailed, reportCache>>
    /\ UNCHANGED notTasks

\* background_tasks.py 137-165: the report is generated and written to the
\* cache with its metadata.
GenerateSucceeds(c) ==
    /\ callPc[c] = "generating"
    /\ callOutcome' = [callOutcome EXCEPT ![c] = "succeeded"]
    /\ reportCache' = [reportCache EXCEPT ![callArgs[c]] = "new"]
    /\ callPc' = [callPc EXCEPT ![c] = Finally("succeeded")]
    /\ UNCHANGED <<callArgs, callLocal, callResult, taskKeys, userTasks,
                   cacheFailed>>
    /\ UNCHANGED notTasks

\* background_tasks.py 162-169: the report is generated but the cache
\* refuses the report (nothing is written) or its metadata (the report is
\* written); the exception is logged.
GenerateCacheFails(c) ==
    /\ callPc[c] = "generating"
    /\ callOutcome' = [callOutcome EXCEPT ![c] = "failed"]
    /\ cacheFailed' = [cacheFailed EXCEPT ![c] = TRUE]
    /\ \E report_written \in BOOLEAN :
           reportCache' = IF report_written
                          THEN [reportCache EXCEPT ![callArgs[c]] = "new"]
                          ELSE reportCache
    /\ callPc' = [callPc EXCEPT ![c] = Finally("failed")]
    /\ UNCHANGED <<callArgs, callLocal, callResult, taskKeys, userTasks>>
    /\ UNCHANGED notTasks

\* task_tracking.py 104-107: complete_task reads the task key.
CompleteTaskGet(c) ==
    /\ callPc[c] = "completing"
    /\ callPc' = [callPc EXCEPT ![c] =
           IF taskKeys[callArgs[c]] THEN "complete_user_get"
           ELSE "complete_delete"]
    /\ UNCHANGED <<callArgs, callLocal, callResult, taskKeys, userTasks>>
    /\ UNCHANGED generateVars
    /\ UNCHANGED notTasks

\* task_tracking.py 113-121: the user's list is read.
CompleteTaskUserGet(c) ==
    /\ callPc[c] = "complete_user_get"
    /\ callLocal' = [callLocal EXCEPT ![c] = userTasks[callArgs[c].username]]
    /\ callPc' = [callPc EXCEPT ![c] = "complete_user_set"]
    /\ UNCHANGED <<callArgs, callResult, taskKeys, userTasks>>
    /\ UNCHANGED generateVars
    /\ UNCHANGED notTasks

\* task_tracking.py 123-125: the task is removed from the list that was
\* read and the list is written.
CompleteTaskUserSet(c) ==
    /\ callPc[c] = "complete_user_set"
    /\ userTasks' =
           IF callArgs[c] \in callLocal[c]
           THEN [userTasks EXCEPT ![callArgs[c].username] =
                    callLocal[c] \ {callArgs[c]}]
           ELSE userTasks
    /\ callPc' = [callPc EXCEPT ![c] = "complete_delete"]
    /\ callLocal' = [callLocal EXCEPT ![c] = {}]
    /\ UNCHANGED <<callArgs, callResult, taskKeys>>
    /\ UNCHANGED generateVars
    /\ UNCHANGED notTasks

\* task_tracking.py 132: the task key is deleted.
CompleteTaskDelete(c) ==
    /\ callPc[c] = "complete_delete"
    /\ taskKeys' = [taskKeys EXCEPT ![callArgs[c]] = FALSE]
    /\ callPc' = [callPc EXCEPT ![c] = "completed"]
    /\ UNCHANGED <<callArgs, callLocal, callResult, userTasks>>
    /\ UNCHANGED generateVars
    /\ UNCHANGED notTasks

\* task_tracking.py 135-136: a cache operation of complete_task raises; the
\* exception is logged and complete_task returns with the keys as they are.
CompleteTaskCacheFails(c) ==
    /\ callPc[c] \in {"completing", "complete_user_get", "complete_user_set",
                      "complete_delete"}
    /\ cacheFailed' = [cacheFailed EXCEPT ![c] = TRUE]
    /\ callPc' = [callPc EXCEPT ![c] = "completed"]
    /\ callLocal' = [callLocal EXCEPT ![c] = {}]
    /\ UNCHANGED <<callArgs, callResult, taskKeys, userTasks,
                   callOutcome, reportCache>>
    /\ UNCHANGED notTasks

TasksIdle ==
    /\ callArgs = [c \in Calls |-> [username |-> "alice", period |-> "1_year"]]
    /\ callPc = [c \in Calls |-> "off"]
    /\ callLocal = [c \in Calls |-> {}]
    /\ callResult = [c \in Calls |-> None]
    /\ taskKeys = [t \in TaskIds |-> FALSE]
    /\ userTasks = [u \in Usernames |-> {}]
    /\ callOutcome = [c \in Calls |-> "none"]
    /\ cacheFailed = [c \in Calls |-> FALSE]
    /\ reportCache = [t \in TaskIds |-> "old"]

\* An order of the task ids.
TaskIndex(t) ==
    (IF t.username = "alice" THEN 0 ELSE 2)
        + (IF t.period = "1_year" THEN 0 ELSE 1)

\* The requests have arrived; no task is registered.  The calls, the
\* usernames and the periods are interchangeable, so the calls are taken in
\* the order of their task ids and the first is for alice and one year.
TasksInit ==
    /\ callArgs \in [Calls -> TaskIds]
    /\ TaskIndex(callArgs[1]) = 0
    /\ \A c \in Calls \ {1} :
           TaskIndex(callArgs[c - 1]) <= TaskIndex(callArgs[c])
    /\ callPc = [c \in Calls |-> "is_task_active"]
    /\ callLocal = [c \in Calls |-> {}]
    /\ callResult = [c \in Calls |-> None]
    /\ taskKeys = [t \in TaskIds |-> FALSE]
    /\ userTasks = [u \in Usernames |-> {}]
    /\ callOutcome = [c \in Calls |-> "none"]
    /\ cacheFailed = [c \in Calls |-> FALSE]
    /\ reportCache = [t \in TaskIds |-> "old"]

TasksNext ==
    \/ \E c \in Calls : IsTaskActive(c)
    \/ \E c \in Calls : CanStartReportedUserTask(c)
    \/ \E c \in Calls : StartTaskGet(c)
    \/ \E c \in Calls : StartTaskSet(c)
    \/ \E c \in Calls : StartTaskUserGet(c)
    \/ \E c \in Calls : StartTaskUserSet(c)
    \/ \E c \in Calls : GenerateNoToken(c)
    \/ \E c \in Calls : GenerateFails(c)
    \/ \E c \in Calls : GenerateSucceeds(c)
    \/ \E c \in Calls : GenerateCacheFails(c)
    \/ \E c \in Calls : CompleteTaskGet(c)
    \/ \E c \in Calls : CompleteTaskCacheFails(c)
    \/ \E c \in Calls : CompleteTaskUserGet(c)
    \/ \E c \in Calls : CompleteTaskUserSet(c)
    \/ \E c \in Calls : CompleteTaskDelete(c)

-----------------------------------------------------------------------------
(* The enrichment batch of collect_user_prs on its own, from the moment the *)
(* search result is parsed, over PRs whose repository name may lack the     *)
(* slash.                                                                   *)

\* Lines 370-372: the repository name does not split in two; the task
\* returns, leaving the semaphore, without counting the PR.
MetricsBadName(i) ==
    /\ collectPc = "enrich"
    /\ i \in 1..Len(metrics)
    /\ metrics[i].st = "running"
    /\ Len(RepoParts(pull_requests[i].repository)) /= 2
    /\ metrics' = [metrics EXCEPT ![i] = DoneTask("none")]
    /\ UNCHANGED <<collectArgs, collectPc, searchItems, searchError,
                   pull_requests, stats, starTasks, collectReturned,
                   fileCache>>
    /\ UNCHANGED notCollect

\* Lines 347-362: the search has returned and the items are parsed; the
\* tasks of the batch are created.
BatchOfPrsInit ==
    /\ collectArgs \in CollectArgs
    /\ ~collectArgs.include_star_increase /\ ~collectArgs.since
    /\ ~collectArgs.until
    /\ collectPc = "enrich"
    /\ \E n \in 1..MaxItems : \E names \in [1..n -> {"acme/widget", "widget"}] :
           /\ searchItems = [i \in 1..n |-> PrItem(names[i])]
           /\ pull_requests = [i \in 1..n |-> PullRequestInfo(i, names[i])]
           /\ stats = CollectionStats(n)
           /\ metrics = [i \in 1..n |-> WaitingTask]
    /\ searchError = NoError
    /\ starTasks = [r \in RepoNames |-> NoStarTask]
    /\ collectReturned = NotReturned
    /\ \E entry \in {Absent, CachedTuple(FileSummary(<<1>>, 2, 5, 1))} :
           fileCache = [n \in PrNumbers |-> IF n = 1 THEN entry ELSE Absent]
    /\ filesReturned = NoFilesReturn

BatchOfPrsNext ==
    \/ \E i \in PrNumbers : MetricsAcquire(i)
    \/ \E i \in PrNumbers : MetricsBadName(i)
    \/ \E i \in PrNumbers : MetricsCacheFails(i)
    \/ \E i \in PrNumbers : MetricsFetch(i)
    \/ MetricsGather

-----------------------------------------------------------------------------
(* Properties.                                                              *)

\* C1: categorize_error is total and deterministic: an HTTP status error with
\* status 401, 403, 404 or 422 is "fatal"; every other HTTP status (429, 500,
\* 502, 503, 504 included), a timeout, a connection error and every other
\* exception is "transient".
C1_ClassifierMapping ==
    error /= NoError =>
        /\ category \in {"fatal", "transient"}
        /\ category = "fatal" <=>
               (IsHTTPStatusError(error) /\ error.status \in {401, 403, 404, 422})
        /\ (IsHTTPStatusError(error) /\ error.status \in {429, 500, 502, 503, 504})
               => category = "transient"
        /\ error.class \in {"TimeoutException", "ConnectError"}
               => category = "transient"

C1_Witness == error = HTTPStatusError(403) /\ category = "fatal"

AllPagesSucceeded ==
    \A p \in DOMAIN remaining_results : remaining_results[p].st /= "failed"

\* C2: without max_results, when every page request succeeds, search_all_issues
\* returns exactly the total_count items of the search, each once, for every
\* total_count from 0 to PageFactor * per_page.
C2_PaginationComplete ==
    (searchPc = "done" /\ IsNone(searchArgs.max_results) /\ AllPagesSucceeded)
        => /\ Len(return_items) = searchArgs.total_count
           /\ NoDuplicates(return_items)
           /\ \A i \in 1..searchArgs.total_count :
                  \E j \in 1..Len(return_items) : return_items[j] = i

C2_Witness ==
    /\ searchPc = "done"
    /\ IsNone(searchArgs.max_results)
    /\ searchArgs.per_page = MaxPerPage
    /\ searchArgs.total_count = PageFactor * searchArgs.per_page
    /\ AllPagesSucceeded
    /\ total_pages = PageFactor
    /\ Len(return_items) = searchArgs.total_count
    /\ searchRequests[PageFactor] = 1

\* C3: with max_results = K, search_all_issues returns exactly
\* min(K, total_count) items, for every K and total_count (all page requests
\* succeeding).
C3_MaxResultsTruncation ==
    (searchPc = "done" /\ ~IsNone(searchArgs.max_results) /\ AllPagesSucceeded)
        => Len(return_items) = Min(Get(searchArgs.max_results),
                                   searchArgs.total_count)

\* What the stargazer history of a repository with n stars holds.
StarTimes(n) == (GitHubLaunch + 1)..(GitHubLaunch + n)
InWindow(n, since, until) == Cardinality(StarTimes(n) \cap (since..until))
LaterThanUntil(n, until) ==
    Cardinality(StarTimes(n) \cap ((until + 1)..(GitHubLaunch + n)))
BeforeSince(n, since) ==
    Cardinality(StarTimes(n) \cap ((GitHubLaunch + 1)..(since - 1)))
\* The index k of the first edge before since (when BeforeSince > 0), and the
\* page an edge index lies on.
FirstBefore(n, since) == n - BeforeSince(n, since) + 1
PageOf(k) == (k - 1) \div StargazerPageSize + 1

C5_StarCap ==
    LET r == starReturned
        n == stargazers[r.key.repo]
        count == InWindow(n, r.key.since, r.key.until)
    IN  (starPc = "returned" /\ r.path = "graphql" /\ r.outcome = "ok")
            => /\ count > StarLimit =>
                      /\ r.result = Some(-1)
                      /\ r.writes = <<-1>>
                      /\ r.graphql <= PageOf(LaterThanUntil(n, r.key.until)
                                                + StarLimit + 1)
               /\ count <= StarLimit => r.result = Some(count)

\* C6: a call whose arguments equal those of an earlier call that succeeded
\* returns that call's value (0 and -1 included) and issues no GraphQL and no
\* REST request.
C6_CacheIdempotence ==
    (starPc = "returned" /\ ~IsNone(starReturned.repeat))
        => /\ starReturned.result = starReturned.repeat
           /\ starReturned.graphql = 0
           /\ starReturned.rest = 0

C6_Witness ==
    /\ starPc = "returned"
    /\ starReturned.repeat = Some(0)
    /\ starReturned.result = Some(0)
    /\ starReturned.path = "cache"
    /\ starReturned.graphql = 0

NonNegative(data) ==
    /\ data.additions >= 0
    /\ data.deletions >= 0
    /\ data.changed_files = Len(data.file_names)

\* C7: for every list of file-diff records, negative additions or deletions
\* included, the additions and deletions returned by fetch_pr_files and those
\* it writes to the cache are never negative, and changed_files is the number
\* of file names collected.
C7_NonNegativeTotals ==
    filesReturned.number /= 0 =>
        /\ NonNegative(filesReturned.result)
        /\ ~IsNone(filesReturned.write) =>
               /\ NonNegative(Get(filesReturned.write))
               /\ fileCache[filesReturned.number]
                      = CachedTuple(Get(filesReturned.write))
        /\ fileCache[filesReturned.number].kind = "tuple"
               /\ filesReturned.result = fileCache[filesReturned.number].data
               => NonNegative(fileCache[filesReturned.number].data)

\* A response with a negative stat was summed, returned and cached.
C7_Witness ==
    /\ filesReturned.number = 1
    /\ filesReturned.negative
    /\ filesReturned.files = 2
    /\ filesReturned.result.additions = 2
    /\ filesReturned.result.changed_files = 1
    /\ filesReturned.write = Some(filesReturned.result)

\* The PRs of a list, without their stats.
Identities(prs) == [i \in 1..Len(prs) |-> PrId(prs[i])]

Populated(pr) ==
    /\ ~IsNone(pr.additions)
    /\ ~IsNone(pr.deletions)
    /\ ~IsNone(pr.changed_files)

\* C8: when the file-listing call of PR #2 of 3 fails with a fatal error and
\* those of PRs #1 and #3 succeed, collect_user_prs returns the three PRs with
\* populated stats on #1 and #3, and failed_prs holds exactly the identifier
\* of PR #2.
C8_FatalFetchIsolated ==
    (/\ collectReturned.kind = "returned"
     /\ Len(pull_requests) = 3
     /\ metrics[1].transport = "ok"
     /\ metrics[2].transport = "fatal"
     /\ metrics[3].transport = "ok")
    => /\ Len(collectReturned.value) = 3
       /\ Populated(collectReturned.value[1])
       /\ Populated(collectReturned.value[3])
       /\ stats.failed_prs = <<PrId(pull_requests[2])>>

C10_SearchErrorHandling ==
    (collectPc = "done" /\ IsHTTPStatusError(searchError)) =>
        IF searchError.status \in {404, 422}
        THEN collectReturned = Returned(<<>>)
        ELSE collectReturned = Raised(searchError)

\* The search failed with 422 and the empty list was returned.
C10_Witness ==
    /\ collectPc = "done"
    /\ searchError = HTTPStatusError(422)
    /\ collectReturned = Returned(<<>>)

\* C11: in a run with star increase enabled, at most one star fetch is
\* issued per distinct repository however many PRs share it, and every
\* returned PR carries the result of the fetch of its repository, so PRs of
\* one repository end with the same star_increase.
C11_StarFetchDeduplicated ==
    /\ \A r \in RepoNames : starTasks[r].fetches <= 1
    /\ (collectReturned.kind = "returned" /\ StarsWanted(collectArgs)) =>
           \A i \in 1..Len(collectReturned.value) :
               LET pr == collectReturned.value[i]
               IN  /\ pr.star_increase = starTasks[pr.repository].result
                   /\ \A j \in 1..Len(collectReturned.value) :
                          collectReturned.value[j].repository = pr.repository
                              => collectReturned.value[j].star_increase
                                     = pr.star_increase

\* Two PRs of one repository and one of another were returned after one
\* fetch per repository, with different results for the two repositories.
C11_Witness ==
    /\ collectReturned.kind = "returned"
    /\ StarsWanted(collectArgs)
    /\ Len(collectReturned.value) = 3
    /\ collectReturned.value[1].repository = "acme/widget"
    /\ collectReturned.value[2].repository = "acme/gadget"
    /\ collectReturned.value[3].repository = "acme/widget"
    /\ starTasks["acme/widget"].fetches = 1
    /\ starTasks["acme/gadget"].fetches = 1
    /\ collectReturned.value[1].star_increase = Some(7)
    /\ collectReturned.value[3].star_increase = Some(7)
    /\ collectReturned.value[2].star_increase = None

\* C12: a star fetch is issued only if include_star_increase is set and
\* both since and until are supplied; in every other case no star fetch is
\* issued and every returned PR has star_increase = None.
C12_StarsOnlyWhenWanted ==
    /\ (\E r \in RepoNames : starTasks[r].fetches > 0)
           => (/\ collectArgs.include_star_increase
               /\ collectArgs.since
               /\ collectArgs.until)
    /\ ~(collectArgs.include_star_increase /\ collectArgs.since
             /\ collectArgs.until) =>
           /\ \A r \in RepoNames : starTasks[r].st = "off"
           /\ \A i \in 1..Len(collectReturned.value) :
                  collectReturned.value[i].star_increase = None

\* Star data was asked for with `since` but no `until`; PRs were returned
\* without a star fetch.
C12_Witness ==
    /\ collectReturned.kind = "returned"
    /\ collectArgs.include_star_increase
    /\ collectArgs.since
    /\ ~collectArgs.until
    /\ Len(collectReturned.value) = 2
    /\ \A r \in RepoNames : starTasks[r].fetches = 0
    /\ \A i \in 1..2 : collectReturned.value[i].star_increase = None

\* C13: when `since` is on or before the launch date and the cache misses,
\* the call issues no GraphQL request and exactly one REST repository
\* request, and, that request succeeding, returns the repository's total
\* stargazers_count.
C13_AllTimeShortcut ==
    (/\ starPc = "returned"
     /\ starReturned.key.since <= GitHubLaunch
     /\ starReturned.path /= "cache")
    => /\ starReturned.graphql = 0
       /\ starReturned.rest = 1
       /\ starReturned.outcome = "ok" =>
              starReturned.result
                  = Some(stargazers[starReturned.key.repo])

\* A window that starts on the launch date was answered by one REST request
\* with the 1205 stars of the repository.
C13_Witness ==
    /\ starPc = "returned"
    /\ starReturned.key = [repo |-> "acme/widget", since |-> GitHubLaunch,
                           until |-> 1300]
    /\ starReturned.path = "rest"
    /\ starReturned.rest = 1
    /\ starReturned.graphql = 0
    /\ starReturned.result = Some(1205)

C16_WindowsNeverShare ==
    (starPc = "returned" /\ starReturned.path = "cache")
        => /\ ~IsNone(starReturned.repeat)
           /\ starReturned.result = starReturned.repeat

\* A second call for the same repository with another window was not
\* answered from the entry of the first.
C16_Witness ==
    /\ starPc = "returned"
    /\ starCalls = 2
    /\ starReturned.key = [repo |-> "acme/widget", since |-> 206,
                           until |-> 1300]
    /\ starReturned.path = "graphql"
    /\ starCache[CacheKey([repo |-> "acme/widget", since |-> 2,
                           until |-> 1300])] = Some(-1)

\* The keys of the returned dictionary, and the value of a key.
StarIncreaseKeys == {item[1] : item \in star_increases}
StarIncreaseOf(repo) == {item[2] : item \in {x \in star_increases : x[1] = repo}}

\* C15: collect_repository_star_increases never raises and returns a mapping
\* whose keys are exactly the distinct input names; a name whose fetch
\* raised maps to None, a name not of the form owner/repo maps to None
\* without a fetch, and every other name was fetched once and maps to what
\* its fetch returned.
C15_BatchMapping ==
    /\ batchPc /= "raised"
    /\ \A i \in 1..Len(batchTasks) :
           Len(RepoParts(batchTasks[i].repo)) /= 2
               => batchTasks[i].fetches = 0
    /\ batchPc = "returned" =>
           /\ StarIncreaseKeys
                  = {batchRepositories[i] : i \in 1..Len(batchRepositories)}
           /\ \A i \in 1..Len(batchTasks) :
                  LET task == batchTasks[i]
                  IN  /\ StarIncreaseOf(task.repo) = {task.result}
                      /\ task.failed => task.result = None
                      /\ Len(RepoParts(task.repo)) /= 2
                             => task.result = None
                      /\ Len(RepoParts(task.repo)) = 2
                             => task.fetches = 1

\* A list that names one repository twice, with a name without a slash: the
\* fetch of the first raised, the third was fetched and returned 7.
C15_Witness ==
    /\ batchPc = "returned"
    /\ batchRepositories = <<"acme/widget", "widget", "acme/gadget">>
    /\ batchTasks[1].failed
    /\ star_increases = {<<"acme/widget", None>>, <<"widget", None>>,
                         <<"acme/gadget", Some(7)>>}

\* The failed attempt was a timeout.
TimedOut(outcome) == outcome.error = OtherError("TimeoutException")

\* The failed attempt was a rate-limit response: HTTP 429, or HTTP 403 with
\* a remaining header of "0".
RateLimited(outcome) ==
    \/ outcome.error = HTTPStatusError(429)
    \/ /\ outcome.error = HTTPStatusError(403)
       /\ outcome.remaining = Some(Digits(0))

\* The reset header of the response is absent or a decimal epoch.
ResetWellFormed(outcome) ==
    IsNone(outcome.reset) \/ Get(outcome.reset).text = "digits"

\* C17: one call of _request_with_retry sends at most max_retries + 1
\* requests; it returns only a response without an error status; and when
\* the last attempt failed with a timeout or a rate-limit response (so did
\* every attempt before it), max_retries + 1 requests were sent and the
\* error of that last attempt is what the call raises.
C17_BoundedAttempts ==
    /\ requests <= requestArgs.max_retries + 1
    /\ requestPc = "returned" => lastOutcome.ok
    /\ requestPc = "raised" => requestError /= NoError
    /\ ( /\ requestPc = "raised"
         /\ requests > 0
         /\ TimedOut(lastOutcome)
                \/ (RateLimited(lastOutcome) /\ ResetWellFormed(lastOutcome)) )
           => /\ requests = requestArgs.max_retries + 1
              /\ requestError = lastOutcome.error

\* With the default max_retries the fourth request was answered with HTTP
\* 429 and that error was raised.
C17_Witness ==
    /\ requestPc = "raised"
    /\ requestArgs.max_retries = 3
    /\ requests = 4
    /\ sleeps = 3
    /\ requestError = HTTPStatusError(429)
    /\ lastOutcome.error = requestError

\* C18: a request that failed with a connection error or with HTTP 500,
\* 502, 503 or 504 has been retried up to the bound when its error is
\* raised: max_retries + 1 requests were sent.
C18_ServerErrorsRetried ==
    ( /\ requestPc = "raised"
      /\ requests > 0
      /\ lastOutcome.error \in
             TransportErrors \cup {HTTPStatusError(st) : st \in {500, 502, 503, 504}} )
        => requests = requestArgs.max_retries + 1

\* The failed attempt was HTTP 401, 404 or 422, or HTTP 403 without a
\* remaining header of "0".
FatalResponse(outcome) ==
    \/ outcome.error \in {HTTPStatusError(st) : st \in {401, 404, 422}}
    \/ /\ outcome.error = HTTPStatusError(403)
       /\ outcome.remaining /= Some(Digits(0))

\* C19: a request answered with HTTP 401, 404 or 422, or with HTTP 403
\* without a remaining header of "0", is not sent again: the call raises
\* that error without a wait for it, and when it was the first attempt
\* exactly one request was sent and nothing was waited for.
C19_FatalNotRetried ==
    FatalResponse(lastOutcome)
        => /\ requestPc = "raised"
           /\ requestError = lastOutcome.error
           /\ requests = retry_count + 1
           /\ sleeps = retry_count
           /\ retry_count = 0 => requests = 1 /\ sleeps = 0 /\ wait_time = 0

\* The first request was answered with HTTP 403 with requests remaining and
\* a reset header, under the default max_retries: raised at once.
C19_Witness ==
    /\ requestPc = "raised"
    /\ requestArgs.max_retries = 3
    /\ requests = 1
    /\ sleeps = 0
    /\ requestError = HTTPStatusError(403)
    /\ lastOutcome.remaining = Some(Digits(42))
    /\ lastOutcome.reset = Some(Digits(1040))

\* C20: when a rate-limited request is about to be sent again, the wait
\* before it was min(reset_time - now, 60) raised to at least 1 if the
\* response had a reset header (a decimal epoch), hence between 1 and 60
\* also for a reset time in the past, and 2^retry_count (of the failed
\* call) if it had no reset header.
C20_RateLimitWait ==
    ( /\ requestPc = "calling"
      /\ retry_count > 0
      /\ RateLimited(lastOutcome) )
        => /\ sleeps = retry_count
           /\ ( ~IsNone(lastOutcome.reset)
                /\ Get(lastOutcome.reset).text = "digits" )
                  => LET d == Get(lastOutcome.reset).int - now
                     IN  /\ wait_time = IF d > 60 THEN 60
                                        ELSE IF d < 1 THEN 1 ELSE d
                         /\ wait_time \in 1..60
           /\ IsNone(lastOutcome.reset)
                  => wait_time = 2 ^ (retry_count - 1)

\* A 403 with no requests remaining whose reset time is 30 seconds in the
\* past: the retry waits one second.
C20_Witness ==
    /\ requestPc = "calling"
    /\ retry_count = 1
    /\ lastOutcome.error = HTTPStatusError(403)
    /\ lastOutcome.remaining = Some(Digits(0))
    /\ lastOutcome.reset = Some(Digits(970))
    /\ now = 1000
    /\ wait_time = 1

\* C21: whenever the response of a successful request has an errors array,
\* execute_graphql raises an error that is not an HTTP status error and
\* whose text holds the message of every entry, in order; it returns a body
\* only if the body has no errors array; and the failing call sent no
\* request after the one that was answered.
C21_GraphqlErrorsRaised ==
    /\ graphqlPc = "returned" => ~graphqlBody.has_errors
    /\ graphqlBody.has_errors =>
           /\ graphqlPc = "raised"
           /\ graphqlError.class = "ValueError"
           /\ graphqlError.class /= "HTTPStatusError"
           /\ \A i \in 1..Len(graphqlBody.errors) :
                  graphqlError.text[2 * i] =
                      IF graphqlBody.errors[i].has_message
                      THEN graphqlBody.errors[i].message
                      ELSE graphqlBody.errors[i].str
           /\ Len(graphqlError.text) = 2 * Len(graphqlBody.errors)
                  \/ Len(graphqlBody.errors) = 0
           /\ requestPc = "returned"
           /\ lastOutcome.ok
           /\ requests = retry_count + 1
           /\ sleeps = retry_count

\* The first request is answered with two errors; both messages are in the
\* text of the ValueError and one request was sent.
C21_Witness ==
    /\ graphqlPc = "raised"
    /\ requests = 1
    /\ Len(graphqlBody.errors) = 2
    /\ graphqlError.text = <<"GraphQL errors: ",
                             "Field 'invalid' doesn't exist", "; ",
                             "Another error">>

\* C22: a failure of a page fetch after the first page does not abort the
\* search: the search raises only if the request for page 1 failed, and
\* once page 1 has been read its items are returned whatever happens to
\* the later pages.
C22_LaterPageFailureTolerated ==
    searchPc = "raised" => searchRequests[2] = 0

\* C23: when a fetch_pr_metrics task returns without a failure, the PR is
\* counted in file_fetch_cached if and only if the cache held a tuple with
\* three non-negative numbers for it and no file-listing call was made; a
\* PR for which the file-listing call was made is counted in
\* file_fetch_success and not in file_fetch_cached.
C23_CachedCountedIffUsed ==
    [][\A i \in PrNumbers :
          ( /\ i \in 1..Len(metrics)
            /\ metrics[i].st = "running"
            /\ metrics'[i].st = "done"
            /\ stats'.file_fetch_failed = stats.file_fetch_failed )
          => LET entry == fileCache[pull_requests[i].number]
                 usable == /\ entry.kind = "tuple"
                           /\ entry.data.additions >= 0
                           /\ entry.data.deletions >= 0
                           /\ entry.data.changed_files >= 0
                 called == metrics'[i].transport /= "none"
             IN  /\ (stats'.file_fetch_cached = stats.file_fetch_cached + 1)
                        <=> (usable /\ ~called)
                 /\ called =>
                        /\ stats'.file_fetch_success
                               = stats.file_fetch_success + 1
                        /\ stats'.file_fetch_cached = stats.file_fetch_cached
      ]_vars

\* The PRs of a list are in the order of the search result: their numbers
\* (positions in the search result) increase.
InSearchOrder(prs) ==
    \A i, j \in 1..Len(prs) : i < j => prs[i].number < prs[j].number

\* C24: at every moment of the enrichment and of the star collection the
\* list of PRs is in the order of the search result, and the list that
\* collect_user_prs returns holds exactly the PR items of the search
\* result, each with its repository, in that order.
C24_OrderPreserved ==
    /\ InSearchOrder(pull_requests)
    /\ (collectReturned.kind = "returned" /\ searchError = NoError) =>
           LET prs == collectReturned.value
           IN  /\ InSearchOrder(prs)
               /\ {prs[i].number : i \in 1..Len(prs)}
                      = {k \in 1..Len(searchItems) : searchItems[k].kind = "pr"}
               /\ \A i \in 1..Len(prs) :
                      prs[i].repository = searchItems[prs[i].number].repository

\* Three PRs of two repositories are returned in search order after both
\* phases; the file listing of the first failed and that of the second
\* succeeded.
C24_Witness ==
    /\ collectReturned.kind = "returned"
    /\ Len(collectReturned.value) = 3
    /\ collectReturned.value[1].repository /= collectReturned.value[2].repository
    /\ collectReturned.value[3].star_increase = Some(7)
    /\ metrics[1].transport = "transient"
    /\ metrics[2].transport = "ok"

\* The item is a PR: it has a pull_request object.
IsPullRequest(item) == item.pull_request = "object"

\* No expected field of the item is missing or unreadable.
Complete(item) ==
    /\ item.repository_url = "ok" \/ item.html_url = "ok"
    /\ item.html_url /= "missing"
    /\ item.created_at = "ok"
    /\ item.closed_at /= "invalid"
    /\ item.merged_at /= "invalid"
    /\ item.number = "ok" /\ item.title = "ok" /\ item.user = "ok"
    /\ item.state \in RawStates

\* A field of the item that must be a text or an object is null.
HasNullField(item) == item.created_at = "null" \/ item.user = "null"

C27_MergedImpliesClosed ==
    \A i \in 1..Len(parsed) :
        LET item == rawItems[parsed[i].position]
        IN  /\ parsed[i].state = item.state
            /\ parsed[i].merged_at = (item.merged_at = "ok")
            /\ (item.merged_at = "ok" => item.state = "closed")
                   => (parsed[i].merged_at => parsed[i].state = "closed")

\* A closed item with merged_at and an open item without were parsed.
C27_Witness ==
    /\ parsePc = "parsed"
    /\ Len(parsed) = 2
    /\ parsed[1].merged_at /\ parsed[1].state = "closed"
    /\ ~parsed[2].merged_at /\ parsed[2].state = "open"

\* C28: get_display_state gives "merged" exactly for a PR whose state is
\* "closed" and whose merged_at is set, and the raw state for every other
\* PR.
C28_DisplayState ==
    parsePc = "displayed" =>
        /\ Len(display_states) = Len(parsed)
        /\ \A i \in 1..Len(parsed) :
               /\ display_states[i] = "merged"
                      <=> (parsed[i].state = "closed" /\ parsed[i].merged_at)
               /\ display_states[i] /= "merged"
                      => display_states[i] = parsed[i].state

\* The display states of a merged PR, an open PR with merged_at set and a
\* closed PR that was not merged.
C28_Witness ==
    /\ parsePc = "displayed"
    /\ Len(parsed) = 3
    /\ parsed[2].state = "open" /\ parsed[2].merged_at
    /\ display_states = <<"merged", "open", "closed">>

\* C26: at each fan-out site the operations in flight never exceed the
\* limit of the site's semaphore: the page fetches of search_all_issues
\* (max_concurrent_pages), the fetch_pr_metrics tasks of collect_user_prs
\* (github_pr_file_fetch_concurrency) and the star fetches of
\* collect_repository_star_increases (max_concurrent).
C26_FanOutBounded ==
    /\ Cardinality({page \in DOMAIN remaining_results :
                       remaining_results[page].st = "inflight"})
           <= searchArgs.max_concurrent_pages
    /\ Cardinality({i \in 1..Len(metrics) : metrics[i].st = "running"})
           <= github_pr_file_fetch_concurrency
    /\ Cardinality({i \in 1..Len(batchTasks) : batchTasks[i].st = "running"})
           <= batchLimit
    /\ Cardinality({r \in RepoNames : starTasks[r].st = "running"})
           <= max_concurrent

\* Two page fetches are in flight under a limit of two while another page
\* waits for the semaphore.
C26_Witness ==
    /\ searchPc = "concurrent"
    /\ searchArgs.max_concurrent_pages = 2
    /\ Cardinality({page \in DOMAIN remaining_results :
                       remaining_results[page].st = "inflight"}) = 2
    /\ \E page \in DOMAIN remaining_results :
           remaining_results[page].st = "waiting"

\* The calls whose background task has been scheduled and has not yet
\* deleted its task key.
Scheduled(t) ==
    {c \in Calls : callArgs[c] = t /\ callResult[c] = Some(TRUE)
                       /\ callPc[c] /= "completed"}

\* C29: at any moment at most max_reported_user_concurrent_tasks task keys
\* are registered for one username.
C29_PerUserLimit ==
    \A u \in Usernames :
        Cardinality({t \in TaskIds : t.username = u /\ taskKeys[t]})
            <= max_reported_user_concurrent_tasks

\* C30: of the calls for one task_id at most one has been answered True
\* and has its background generation under way at any moment.
C30_StartTaskExclusive ==
    \A t \in TaskIds : Cardinality(Scheduled(t)) <= 1

\* Another call for the same username has written nothing yet.
NoWrites == {"is_task_active", "can_start", "start_get", "start_set",
             "returned"}
Undisturbed(c) ==
    \A d \in Calls \ {c} :
        callArgs[d].username = callArgs[c].username => callPc[d] \in NoWrites

C32_FatalCountedFailed ==
    [][\A i \in PrNumbers :
          ( /\ i \in 1..Len(metrics)
            /\ metrics[i].st = "running"
            /\ metrics'[i].st = "done"
            /\ metrics'[i].transport = "fatal" )
          => /\ stats'.file_fetch_failed = stats.file_fetch_failed + 1
             /\ stats'.failed_prs
                    = Append(stats.failed_prs, PrId(pull_requests[i]))
             /\ stats'.file_fetch_success = stats.file_fetch_success]_vars

C34_EachPrCountedOnce ==
    collectPc \in {"enrich", "stars", "done"} /\ searchError = NoError =>
        LET ended == {i \in 1..Len(metrics) : metrics[i].st = "done"}
            counted == stats.file_fetch_success + stats.file_fetch_failed
                           + stats.file_fetch_cached
        IN  /\ counted = Cardinality(ended)
            /\ Len(stats.failed_prs) = stats.file_fetch_failed
            /\ stats.total_prs = Len(pull_requests)
            /\ collectPc /= "enrich" => counted = stats.total_prs

\* A batch of three PRs has ended with one PR served from the cache, one
\* fetched and one failed.
C34_Witness ==
    /\ collectPc = "done"
    /\ stats.total_prs = 3
    /\ stats.file_fetch_cached = 1
    /\ stats.file_fetch_success = 1
    /\ stats.file_fetch_failed = 1

\* C35: every enrichment batch ends; every PR that waits for a slot of the
\* semaphore gets one, and when the batch has ended no task holds a slot.
C35_BatchTerminates ==
    /\ <>(collectPc = "done")
    /\ \A i \in PrNumbers :
           (i \in 1..Len(metrics) /\ metrics[i].st = "waiting")
               ~> (i \in 1..Len(metrics) /\ metrics[i].st = "running")
    /\ [](collectPc = "done" => \A i \in 1..Len(metrics) :
                                    metrics[i].st = "done")

\* A batch has ended in which one PR had a repository name without a slash,
\* one was served from the cache and one failed after its last attempt.
C35_Witness ==
    /\ collectPc = "done"
    /\ Len(pull_requests) = 3
    /\ \E i \in 1..3 : Len(RepoParts(pull_requests[i].repository)) /= 2
    /\ stats.file_fetch_cached = 1
    /\ stats.file_fetch_failed = 1

\* C36: a call of fetch_pr_files that finds a cache entry that is not a
\* 4-tuple, or a 4-tuple with a negative number, does not return the entry:
\* it requests the file listing and returns non-negative stats; when the
\* listing and the cache write succeed the entry is replaced by the fresh
\* non-negative tuple, otherwise zeroed stats are returned and the entry
\* stays.
C36_DegradedEntryRefetched ==
    LET r == filesReturned
        degraded == \/ r.cached.kind = "malformed"
                    \/ /\ r.cached.kind = "tuple"
                       /\ \/ r.cached.data.additions < 0
                          \/ r.cached.data.deletions < 0
                          \/ r.cached.data.changed_files < 0
    IN  (r.number /= 0 /\ degraded) =>
            /\ r.fetched
            /\ r.result.additions >= 0 /\ r.result.deletions >= 0
            /\ r.result.changed_files >= 0
            /\ r.call = "stored" =>
                   /\ r.write = Some(r.result)
                   /\ fileCache[r.number] = CachedTuple(r.result)
            /\ r.call /= "stored" =>
                   /\ r.result = EmptyData
                   /\ fileCache[r.number] = r.cached

\* A cached tuple with negative additions was found, the listing of two
\* files was fetched and the entry was replaced.
C36_Witness ==
    /\ filesReturned.number = 1
    /\ filesReturned.cached.kind = "tuple"
    /\ filesReturned.cached.data.additions < 0
    /\ filesReturned.call = "stored"
    /\ filesReturned.files = 2
    /\ fileCache[1] = CachedTuple(filesReturned.result)

C38_CachedValuesValid ==
    /\ \A i \in 1..Len(cacheWrites) :
           cacheWrites[i] >= 0 \/ cacheWrites[i] = -1
    /\ \A k \in CacheKeys :
           ~IsNone(starCache[k]) =>
               Get(starCache[k]) >= 0 \/ Get(starCache[k]) = -1

\* The paginated path has written the sentinel and the all-time path a
\* count.
C38_Witness ==
    /\ starPc = "returned"
    /\ starReturned.path = "rest"
    /\ cacheWrites = <<1205>>
    /\ \E k \in CacheKeys : starCache[k] = Some(-1)
    /\ \E k \in CacheKeys : starCache[k] = Some(1205)

\* C39: the items search_all_issues returns are in the order of the API,
\* page after page: the items of the search are numbered in that order, and
\* the returned numbers ascend, whatever the order in which the pages were
\* requested and arrived.
C39_PageOrder ==
    searchPc = "done" =>
        /\ \A i \in 1..Len(return_items) : \A j \in 1..Len(return_items) :
               i < j => return_items[i] < return_items[j]
        /\ \A i \in 1..Len(return_items) :
               i <= Len(first_items) => return_items[i] = first_items[i]

\* Four pages were fetched two at a time after the first and all the items
\* were returned.
C39_Witness ==
    /\ searchPc = "done"
    /\ total_pages = PageFactor
    /\ searchArgs.max_concurrent_pages = 2
    /\ \A p \in 2..PageFactor : remaining_results[p].st = "ok"
    /\ Len(return_items) = PageFactor * searchArgs.per_page

\* C40: when search_all_issues returns, page 1 was requested once; if the
\* first page covered the target no other page was requested, else every
\* page from 2 to the last page of the target was requested once and no page
\* beyond it.  The page size is one the API serves (per_page at most 100,
\* as the docstring of search_all_issues says).
C40_EachPageOnce ==
    (searchPc = "done" /\ searchArgs.per_page <= ApiMaxPerPage) =>
        LET last == (target_count + searchArgs.per_page - 1)
                        \div searchArgs.per_page
            covered == Len(first_items) >= target_count
        IN  /\ searchRequests[1] = 1
            /\ \A p \in PageNumbers \ {1} :
                   searchRequests[p] = IF ~covered /\ p <= last THEN 1 ELSE 0

\* A target of three pages was fetched although the search has five: pages
\* 1 to 3 were requested once each, pages 4 and 5 never.
C40_Witness ==
    /\ searchPc = "done"
    /\ searchArgs.max_results = Some(3)
    /\ searchArgs.per_page = 1
    /\ searchArgs.total_count = 5
    /\ searchRequests = [p \in PageNumbers |-> IF p <= 3 THEN 1 ELSE 0]

-----------------------------------------------------------------------------
(* Specifications.                                                          *)

InitClassify == ClassifyIdle /\ SearchIdle /\ StarIdle /\ FilesIdle
                /\ CollectIdle /\ BatchIdle /\ RequestIdle
        /\ GraphqlIdle
        /\ ParseIdle
        /\ TasksIdle
SpecClassify == InitClassify /\ [][Classify]_vars

InitSearch == ClassifyIdle /\ SearchInit /\ StarIdle /\ FilesIdle
                /\ CollectIdle /\ BatchIdle /\ RequestIdle
        /\ GraphqlIdle
        /\ ParseIdle
        /\ TasksIdle
SpecSearch == InitSearch /\ [][SearchNext]_vars

InitStars == ClassifyIdle /\ SearchIdle /\ StarInit /\ FilesIdle
                /\ CollectIdle /\ BatchIdle /\ RequestIdle
        /\ GraphqlIdle
        /\ ParseIdle
        /\ TasksIdle
SpecStars == InitStars /\ [][StarNext]_vars

InitFiles == ClassifyIdle /\ SearchIdle /\ StarIdle /\ FilesInit
                /\ CollectIdle /\ BatchIdle /\ RequestIdle
        /\ GraphqlIdle
        /\ ParseIdle
        /\ TasksIdle
SpecFiles == InitFiles /\ [][FilesNext]_vars

Init ==
    /\ ClassifyIdle /\ SearchIdle /\ StarIdle
    /\ fileCache = [n \in PrNumbers |-> Absent]
    /\ filesReturned = NoFilesReturn
    /\ CollectInit
    /\ BatchIdle /\ RequestIdle
    /\ GraphqlIdle
    /\ ParseIdle
    /\ TasksIdle
Next == CollectNext
Spec == Init /\ [][Next]_vars

InitStarBatch == ClassifyIdle /\ SearchIdle /\ StarIdle /\ FilesIdle
                 /\ CollectIdle /\ BatchInit /\ RequestIdle
        /\ GraphqlIdle
        /\ ParseIdle
        /\ TasksIdle
SpecStarBatch == InitStarBatch /\ [][BatchNext]_vars

InitRequest == ClassifyIdle /\ SearchIdle /\ StarIdle /\ FilesIdle
               /\ CollectIdle /\ BatchIdle /\ RequestInit
        /\ GraphqlIdle
        /\ ParseIdle
        /\ TasksIdle
SpecRequest == InitRequest /\ [][RequestNext]_vars

InitGraphql ==
    /\ ClassifyIdle /\ SearchIdle /\ StarIdle /\ FilesIdle /\ CollectIdle
    /\ BatchIdle
    /\ RequestInit
    /\ requestArgs.max_retries = DefaultMaxRetries
    /\ GraphqlInit
    /\ ParseIdle
    /\ TasksIdle
SpecGraphql == InitGraphql /\ [][GraphqlNext]_vars

InitEnrich ==
    /\ ClassifyIdle /\ SearchIdle /\ StarIdle /\ BatchIdle /\ RequestIdle
    /\ GraphqlIdle
    /\ EnrichInit
    /\ ParseIdle
    /\ TasksIdle
SpecEnrich == InitEnrich /\ [][EnrichNext]_vars

InitParse ==
    /\ ClassifyIdle /\ SearchIdle /\ StarIdle /\ FilesIdle /\ CollectIdle
    /\ BatchIdle /\ RequestIdle /\ GraphqlIdle
    /\ ParseInit
    /\ TasksIdle
SpecParse == InitParse /\ [][ParseNext]_vars

\* The three fan-out sites, one of them at work in a behaviour.
InitFanOut ==
    /\ ClassifyIdle /\ StarIdle /\ RequestIdle /\ GraphqlIdle /\ ParseIdle
    /\ TasksIdle
    /\ \/ SearchInit /\ FilesIdle /\ CollectIdle /\ BatchIdle
       \/ SearchIdle /\ EnrichInit /\ BatchIdle
       \/ SearchIdle /\ FilesIdle /\ CollectIdle /\ BatchInit
FanOutNext ==
    \/ SearchFirstPage
    \/ SearchFirstPageFails
    \/ SearchSecondPage
    \/ SearchSecondPageFails
    \/ \E page \in PageNumbers : FetchPageAcquire(page)
    \/ \E page \in PageNumbers : FetchPageReturns(page)
    \/ \E page \in PageNumbers : FetchPageFails(page)
    \/ SearchGather
    \/ CollectSearchReturns
    \/ \E i \in PrNumbers : MetricsAcquire(i)
    \/ \E i \in PrNumbers : MetricsCacheFails(i)
    \/ \E i \in PrNumbers : MetricsFetch(i)
    \/ MetricsGather
    \/ \E i \in TaskNumbers : BatchTaskBadName(i)
    \/ \E i \in TaskNumbers : BatchTaskAcquire(i)
    \/ \E i \in TaskNumbers : BatchTaskReturns(i)
    \/ \E i \in TaskNumbers : BatchTaskFails(i)
    \/ BatchGather
SpecFanOut == InitFanOut /\ [][FanOutNext]_vars

InitTasks ==
    /\ ClassifyIdle /\ SearchIdle /\ StarIdle /\ FilesIdle /\ CollectIdle
    /\ BatchIdle /\ RequestIdle /\ GraphqlIdle /\ ParseIdle
    /\ TasksInit
SpecTasks == InitTasks /\ [][TasksNext]_vars

InitBatchOfPrs ==
    /\ ClassifyIdle /\ SearchIdle /\ StarIdle /\ BatchIdle /\ RequestIdle
    /\ GraphqlIdle /\ ParseIdle /\ TasksIdle
    /\ BatchOfPrsInit
\* The event loop runs a task that is ready, and every call a task awaits
\* (cache read, file listing, sleep) returns.
SpecBatchOfPrs ==
    InitBatchOfPrs /\ [][BatchOfPrsNext]_vars /\ WF_vars(BatchOfPrsNext)

=============================================================================
